---- MODULE Spec2Model ----
(***************************************************************************)
(* LANGUAGE STATION save server (Express, one save file per slot) and the  *)
(* properties of its load / replace / patch / delete / log routes.         *)
(*                                                                         *)
(* Every route handler is a synchronous function (readSave and writeSave   *)
(* use the *Sync file calls and no handler awaits), so one handler runs to *)
(* completion before the next request is looked at: one action per         *)
(* handler.  The store is the saves directory: a function from the file    *)
(* names that exist to the parsed JSON document of each file.              *)
(*                                                                         *)
(* JSON objects are records / functions over their keys (an absent key is  *)
(* a key outside DOMAIN), arrays are sequences.  The timestamps createdAt  *)
(* and updatedAt and the constant version field are left out of the        *)
(* documents: no handler reads them.                                       *)
(***************************************************************************)
EXTENDS Integers, Sequences, FiniteSets, TLC

VARIABLES
    store,      \* saves/: file name -> save document, for the files that exist
    req,        \* the request the last handler ran on: method, slotId, body, tags
    res,        \* the response that handler sent: status and JSON body
    inflight,   \* PATCH requests sent by clients and not yet handled
    responses,  \* responses delivered for the requests that were in flight
    savedOverlay,   \* save.rooms[roomId] of one room, as mergeRoomOverlay leaves it
    lastOverlay,    \* the overlay mergeRoomOverlay merged into it last
    roomMap,    \* the room registry of the engine (the rooms store)
    call,       \* the engine call that ran last: op and its arguments
    currentRoomId,  \* the player position store
    currentAct,     \* the act store
    flags,          \* the flags store
    inventory,      \* the inventory store
    gmQueue,        \* room ids the GM has been asked to pre-generate
    gmCalls,        \* the gmPrefetchRoom calls made, each settled or not
    navResult,      \* what the last navigate call returned
    boot,           \* how far onMount has come: start, content, ready
    dlgMap,     \* a room's _dialog map handed to resolveDialogNode
    entryId,    \* the node id handed to resolveDialogNode
    resolved    \* what resolveDialogNode returned

serverVars == <<store, req, res, inflight, responses>>
mergeVars == <<savedOverlay, lastOverlay>>
engineVars == <<roomMap, call>>
dialogVars == <<dlgMap, entryId, resolved>>
sessionVars == <<currentRoomId, currentAct, flags, inventory, gmQueue, gmCalls,
                 navResult, boot>>

vars == <<store, req, res, inflight, responses,
          savedOverlay, lastOverlay, roomMap, call,
          dlgMap, entryId, resolved,
          currentRoomId, currentAct, flags, inventory, gmQueue, gmCalls,
          navResult, boot>>

-----------------------------------------------------------------------------
(* Bounds of the model *)

MaxSeq == 2         \* patches are handled while the stored seq is below this
MaxLog == 3         \* longest stored log
MaxOpts == 2        \* longest injected option list of one NPC
MaxReqs == 3        \* requests the racing clients send in all
MaxNodeOpts == 4    \* longest option list of a dialog node in the registry
MaxNodes == 3       \* nodes of a dialog map handed to resolveDialogNode

-----------------------------------------------------------------------------
(* JSON helpers *)

\* a number field that is absent (req.body.seq undefined, save.seq undefined)
Undefined == -1

\* the object {}
EmptyObj == [k \in {} |-> TRUE]

\* { ...a, ...b }
Spread(a, b) ==
    [k \in (DOMAIN a) \cup (DOMAIN b) |-> IF k \in DOMAIN b THEN b[k] ELSE a[k]]

\* obj.key is present (and an object or array, hence truthy)
Has(obj, key) == key \in DOMAIN obj

\* [...new Set(xs)]: first occurrences, in insertion order
RECURSIVE SetOrder(_)
SetOrder(xs) ==
    IF xs = <<>> THEN <<>>
    ELSE LET front == SetOrder(SubSeq(xs, 1, Len(xs) - 1))
             last == xs[Len(xs)]
         IN IF \E i \in 1..Len(front) : front[i] = last
            THEN front
            ELSE Append(front, last)

Range(xs) == {xs[i] : i \in 1..Len(xs)}

-----------------------------------------------------------------------------
(* Helpers of the server *)

SafeChars == {"s", "l", "o", "t", "_", "1", "9"}

\* slotId.replace(/[^a-z0-9_-]/gi, '_'): the file name of a slot
savePath(slotId) ==
    [i \in 1..Len(slotId) |-> IF slotId[i] \in SafeChars THEN slotId[i] ELSE "_"]

existsSync(st, p) == p \in DOMAIN st

\* writeSave on the directory st
writeSave(st, slotId, data) ==
    [p \in (DOMAIN st) \cup {savePath(slotId)} |->
        IF p = savePath(slotId) THEN data ELSE st[p]]

unlinkSync(st, p) == [q \in (DOMAIN st) \ {p} |-> st[q]]

makeEmptySave(slotId) ==
    [ slotId |-> slotId,
      seq    |-> 0,
      player |-> [ currentRoomId |-> "arrival_bay",
                   act           |-> 1,
                   flags         |-> EmptyObj,
                   inventory     |-> <<>> ],
      rooms  |-> EmptyObj,
      log    |-> <<>> ]

\* readSave(slotId) ?? makeEmptySave(slotId); readSave is null for a missing file
readSave(st, slotId) == st[savePath(slotId)]

-----------------------------------------------------------------------------
(* PATCH /saves/:slotId *)

\* variant: only a client seq behind the server's is a mismatch
SeqMismatchBehind(clientSeq, serverSeq) ==
    clientSeq # Undefined /\ clientSeq < serverSeq

\* clientSeq !== undefined && clientSeq !== save.seq
SeqMismatch(clientSeq, serverSeq) ==
    clientSeq # Undefined /\ clientSeq # serverSeq

\* variant: the increment counts twice
NextSeqSkip(seq) == (IF seq = Undefined THEN 0 ELSE seq) + 2

\* variant: the increment is forgotten
NextSeqKeep(seq) == IF seq = Undefined THEN 0 ELSE seq

\* (save.seq ?? 0) + 1
NextSeq(seq) == (IF seq = Undefined THEN 0 ELSE seq) + 1

\* the player block of the patch.  The spread runs first, so by the time
\* flags and inventory are merged save.player.flags and
\* save.player.inventory already are the incoming values.
mergePlayer(savePlayer, player) ==
    LET spread == Spread(savePlayer, player)
        withFlags ==
            IF Has(player, "flags")
            THEN [spread EXCEPT !.flags = Spread(spread.flags, player.flags)]
            ELSE spread
    IN  IF Has(player, "inventory")
        THEN [withFlags EXCEPT
                 !.inventory = SetOrder(withFlags.inventory \o player.inventory)]
        ELSE withFlags

\* existing.field ?? []
ArrayOr(obj, field) == IF Has(obj, field) THEN obj[field] ELSE <<>>

\* existing ++ incoming.filter(n => !existing?.find(e => e.id === n.id))
AppendNewIds(existing, field, incoming) ==
    ArrayOr(existing, field)
        \o SelectSeq(incoming,
                     LAMBDA n : ~ \E i \in 1..Len(ArrayOr(existing, field)) :
                                    ArrayOr(existing, field)[i].id = n.id)

\* variant: the incoming options are put before the existing ones
mergeInjectedDialogFront(existing, incoming) ==
    LET old == IF Has(existing, "injectedDialog") THEN existing.injectedDialog
               ELSE EmptyObj
    IN  [npcId \in (DOMAIN old) \cup (DOMAIN incoming) |->
            IF npcId \in DOMAIN incoming
            THEN incoming[npcId] \o ArrayOr(old, npcId)
            ELSE old[npcId]]

mergeInjectedDialog(existing, incoming) ==
    LET old == IF Has(existing, "injectedDialog") THEN existing.injectedDialog
               ELSE EmptyObj
    IN  [npcId \in (DOMAIN old) \cup (DOMAIN incoming) |->
            IF npcId \in DOMAIN incoming
            THEN ArrayOr(old, npcId) \o incoming[npcId]
            ELSE old[npcId]]

\* variant: an incoming overlay with a gmRoom replaces the existing overlay
mergeRoomOverlayReplacing(existing, incoming) ==
    IF Has(incoming, "gmRoom") THEN incoming
    ELSE Spread(existing, incoming)

mergeRoomOverlay(existing, incoming) ==
    LET merged == Spread(existing, incoming)
        m1 == IF Has(incoming, "addedNpcs")
              THEN [merged EXCEPT !.addedNpcs =
                       AppendNewIds(existing, "addedNpcs", incoming.addedNpcs)]
              ELSE merged
        m2 == IF Has(incoming, "addedInteractables")
              THEN [m1 EXCEPT !.addedInteractables =
                       AppendNewIds(existing, "addedInteractables",
                                    incoming.addedInteractables)]
              ELSE m1
    IN  IF Has(incoming, "injectedDialog")
        THEN [m2 EXCEPT !.injectedDialog =
                 mergeInjectedDialog(existing, incoming.injectedDialog)]
        ELSE m2

\* for (const [roomId, overlay] of Object.entries(rooms)) ...
mergeRooms(saveRooms, rooms) ==
    [roomId \in (DOMAIN saveRooms) \cup (DOMAIN rooms) |->
        IF roomId \in DOMAIN rooms
        THEN mergeRoomOverlay(IF roomId \in DOMAIN saveRooms
                              THEN saveRooms[roomId] ELSE EmptyObj,
                              rooms[roomId])
        ELSE saveRooms[roomId]]

\* variant: the new entries are put in front
appendToLogFront(log, body) ==
    IF Has(body, "appendLog") /\ Len(body.appendLog) > 0
    THEN body.appendLog \o log
    ELSE log

\* if (appendLog?.length) save.log = [...save.log, ...appendLog]
appendToLog(log, body) ==
    IF Has(body, "appendLog") /\ Len(body.appendLog) > 0
    THEN log \o body.appendLog
    ELSE log

\* variant: a body without seq counts as seq 0
clientSeqOfZero(body) == IF Has(body, "seq") THEN body.seq ELSE 0

\* const clientSeq = req.body.seq
clientSeqOf(body) == IF Has(body, "seq") THEN body.seq ELSE Undefined

\* the save the handler writes when the patch is accepted
patched(save, body) ==
    [save EXCEPT
        !.player = IF Has(body, "player") THEN mergePlayer(@, body.player) ELSE @,
        !.rooms  = IF Has(body, "rooms") THEN mergeRooms(@, body.rooms) ELSE @,
        !.log    = appendToLog(@, body),
        !.seq    = NextSeq(@)]

\* variant: a patch to a slot without a file is answered 404
patchSaveNotFound(st, slotId, body) ==
    IF ~ existsSync(st, savePath(slotId))
    THEN [ store |-> st,
           res   |-> [status |-> 404, error |-> "save not found"] ]
    ELSE IF SeqMismatch(clientSeqOf(body), readSave(st, slotId).seq)
    THEN [ store |-> st,
           res   |-> [ status    |-> 409,
                       error     |-> "seq_mismatch",
                       clientSeq |-> clientSeqOf(body),
                       serverSeq |-> readSave(st, slotId).seq ] ]
    ELSE [ store |-> writeSave(st, slotId,
                               patched(readSave(st, slotId), body)),
           res   |-> [ status |-> 200,
                       ok     |-> TRUE,
                       seq    |-> patched(readSave(st, slotId), body).seq ] ]

\* app.patch: the directory and the response after the handler ran
patchSave(st, slotId, body) ==
    LET save == IF existsSync(st, savePath(slotId))
                THEN readSave(st, slotId)
                ELSE makeEmptySave(slotId)
    IN  IF SeqMismatch(clientSeqOf(body), save.seq)
        THEN [ store |-> st,
               res   |-> [ status    |-> 409,
                           error     |-> "seq_mismatch",
                           clientSeq |-> clientSeqOf(body),
                           serverSeq |-> save.seq ] ]
        ELSE [ store |-> writeSave(st, slotId, patched(save, body)),
               res   |-> [ status |-> 200,
                           ok     |-> TRUE,
                           seq    |-> patched(save, body).seq ] ]

-----------------------------------------------------------------------------
(* The other routes *)

\* variant: the fresh save is returned and not written
loadSaveUnwritten(st, slotId) ==
    IF existsSync(st, savePath(slotId))
    THEN [ store |-> st,
           res   |-> [status |-> 200, body |-> readSave(st, slotId)] ]
    ELSE [ store |-> st,
           res   |-> [status |-> 200, body |-> makeEmptySave(slotId)] ]

\* app.get('/saves/:slotId'): load, creating the save on first access
loadSave(st, slotId) ==
    IF existsSync(st, savePath(slotId))
    THEN [ store |-> st,
           res   |-> [status |-> 200, body |-> readSave(st, slotId)] ]
    ELSE [ store |-> writeSave(st, slotId, makeEmptySave(slotId)),
           res   |-> [status |-> 200, body |-> makeEmptySave(slotId)] ]

\* variant: the replace takes part in the seq check
replaceSaveChecked(st, slotId, body) ==
    IF existsSync(st, savePath(slotId))
           /\ SeqMismatch(clientSeqOf(body), readSave(st, slotId).seq)
    THEN [ store |-> st,
           res   |-> [ status    |-> 409,
                       error     |-> "seq_mismatch",
                       clientSeq |-> clientSeqOf(body),
                       serverSeq |-> readSave(st, slotId).seq ] ]
    ELSE [ store |-> writeSave(st, slotId, body),
           res   |-> [status |-> 200, ok |-> TRUE] ]

\* app.put('/saves/:slotId'): the body becomes the save
replaceSave(st, slotId, body) ==
    [ store |-> writeSave(st, slotId, body),
      res   |-> [status |-> 200, ok |-> TRUE] ]

\* variant: the file is left in place
deleteSaveKeep(st, slotId) ==
    [ store |-> st,
      res   |-> [status |-> 200, ok |-> TRUE] ]

\* app.delete('/saves/:slotId')
deleteSave(st, slotId) ==
    [ store |-> IF existsSync(st, savePath(slotId))
                THEN unlinkSync(st, savePath(slotId))
                ELSE st,
      res   |-> [status |-> 200, ok |-> TRUE] ]

\* tags.split(',').map(t => t.trim()).filter(Boolean), on the split query
requiredTags(tags) == SelectSeq(tags, LAMBDA t : t # "")

\* variant: one of the tags is enough
hasSomeTag(entry, required) ==
    \E i \in 1..Len(required) :
        Has(entry, "tags") /\ required[i] \in Range(entry.tags)

\* required.every(tag => entry.tags?.includes(tag))
hasAllTags(entry, required) ==
    \A i \in 1..Len(required) :
        Has(entry, "tags") /\ required[i] \in Range(entry.tags)

\* filterLog of the engine's log module: the same test on a tag array
filterLog(log, tags) ==
    SelectSeq(log, LAMBDA entry : hasAllTags(entry, tags))

\* variant: the log route creates a missing save the way load does
getLogCreating(st, slotId, tags) ==
    IF ~ existsSync(st, savePath(slotId))
    THEN [ store |-> writeSave(st, slotId, makeEmptySave(slotId)),
           res   |-> [status |-> 200, body |-> <<>>] ]
    ELSE [ store |-> st,
           res   |-> [status |-> 200, body |-> readSave(st, slotId).log] ]

\* app.get('/saves/:slotId/log'); tags is the query split at its commas,
\* the empty sequence when the query has no tags
getLog(st, slotId, tags) ==
    IF ~ existsSync(st, savePath(slotId))
    THEN [ store |-> st,
           res   |-> [status |-> 404, error |-> "save not found"] ]
    ELSE IF tags = <<>>
    THEN [ store |-> st,
           res   |-> [status |-> 200, body |-> readSave(st, slotId).log] ]
    ELSE [ store |-> st,
           res   |-> [ status |-> 200,
                       body   |-> SelectSeq(readSave(st, slotId).log,
                                    LAMBDA entry :
                                        hasAllTags(entry, requiredTags(tags))) ] ]

-----------------------------------------------------------------------------
(* The requests the clients send *)

Slot1 == <<"s", "l", "o", "t", "_", "1">>
Slot9 == <<"s", "l", "o", "t", "_", "9">>
SlotSp == <<"s", "l", "o", "t", " ", "1">>     \* "slot 1": same file as slot_1

SlotIds == {Slot1, Slot9, SlotSp}

\* the files of saves/ in directory order (fs.readdirSync)
Dir == <<savePath(Slot1), savePath(Slot9)>>

\* app.get('/saves'): one summary per save file
listSlots(st) ==
    [ store |-> st,
      res   |-> [ status |-> 200,
                  body   |-> [ i \in 1..Len(SelectSeq(Dir, LAMBDA p : existsSync(st, p))) |->
                      LET save == st[SelectSeq(Dir, LAMBDA p : existsSync(st, p))[i]]
                      IN  [ slotId        |-> save.slotId,
                            act           |-> save.player.act,
                            currentRoomId |-> save.player.currentRoomId ] ] ] ]

EntryA == [type |-> "gm_room_generated", tags |-> <<"room:a", "gm_action">>]
EntryB == [type |-> "room_entered", tags |-> <<"room:a">>]

Npc1 == [id |-> "archivist"]

\* the diffs of PATCH bodies (without seq).  Flags are sent as true only: the
\* content model has no operation that unsets a flag.
Diffs ==
    { EmptyObj,
      [player |-> [flags |-> [a |-> TRUE], inventory |-> <<"x">>]],
      [player |-> [flags |-> [b |-> TRUE], inventory |-> <<"y", "y">>]],
      [player |-> [currentRoomId |-> "corridor_a"],
       appendLog |-> <<EntryA, EntryB>>],
      [rooms |-> [corridor_a |-> [addedNpcs |-> <<Npc1>>,
                                  injectedDialog |-> [archivist |-> <<"ask">>]]]],
      [rooms |-> [corridor_a |-> [gmRoom |-> [id |-> "corridor_a"]]]] }

\* the seq values at which a patch can still be accepted, and no seq at all
SeqInputs == {Undefined} \cup (0..(MaxSeq - 1))

withSeq(diff, seq) ==
    IF seq = Undefined THEN diff ELSE Spread(diff, [seq |-> seq])

PatchBodies == {withSeq(diff, seq) : diff \in Diffs, seq \in SeqInputs}

\* the PATCH requests: every body for slot_1, one or two for the other slots
PatchRequests ==
    ({Slot1} \X PatchBodies)
        \cup {<<Slot9, [appendLog |-> <<EntryB>>]>>,
              <<Slot9, [seq |-> 0, player |-> [flags |-> [b |-> TRUE]]]>>,
              <<SlotSp, [seq |-> 0, appendLog |-> <<EntryB>>]>>}

\* full saves a client sends with PUT: a new game, and an act transition
\* written from a save that was loaded at seq 1
ReplaceBodies ==
    { makeEmptySave(Slot1),
      [makeEmptySave(Slot1) EXCEPT !.seq = 1,
                                   !.player.act = 2,
                                   !.log = <<EntryB>>] }

ReplaceRequests ==
    ({Slot1} \X ReplaceBodies) \cup {<<Slot9, makeEmptySave(Slot9)>>}

TagQueries == {<<>>, <<"">>, <<"room:a">>, <<"room:a", "", "gm_action">>}

\* the model stops growing a save at these sizes
WithinBounds(save) ==
    /\ save.seq <= MaxSeq
    /\ Len(save.log) <= MaxLog
    /\ \A roomId \in DOMAIN save.rooms :
          Has(save.rooms[roomId], "injectedDialog") =>
              \A npcId \in DOMAIN save.rooms[roomId].injectedDialog :
                  Len(save.rooms[roomId].injectedDialog[npcId]) <= MaxOpts

-----------------------------------------------------------------------------
(* The server, one request at a time *)

\* the server at start: an empty saves directory, nothing requested yet
InitServer ==
    /\ store = EmptyObj
    /\ req = [method |-> "NONE"]
    /\ res = [status |-> 0]
    /\ inflight = {}
    /\ responses = {}

\* no overlay merged yet
InitMerge ==
    /\ savedOverlay = EmptyObj
    /\ lastOverlay = EmptyObj

\* export const rooms = writable({}); the loader has not run yet
InitEngine ==
    /\ roomMap = EmptyObj
    /\ call = [op |-> "none"]

\* resolveDialogNode not called yet
InitDialog ==
    /\ dlgMap = EmptyObj
    /\ entryId = ""
    /\ resolved = EmptyObj

\* the stores of state.js as the module creates them; onMount has not run
InitSession ==
    /\ currentRoomId = "arrival_bay"
    /\ currentAct = 1
    /\ flags = EmptyObj
    /\ inventory = <<>>
    /\ gmQueue = {}
    /\ gmCalls = <<>>
    /\ navResult = [success |-> FALSE, reason |-> "none"]
    /\ boot = "start"

Init == InitServer /\ InitMerge /\ InitEngine /\ InitDialog /\ InitSession

Handled(request, result) ==
    /\ \A p \in DOMAIN result.store : WithinBounds(result.store[p])
    /\ store' = result.store
    /\ req' = request
    /\ res' = result.res

Load(slotId) ==
    /\ Handled([method |-> "GET", slotId |-> slotId], loadSave(store, slotId))
    /\ UNCHANGED <<inflight, responses, mergeVars, engineVars, dialogVars, sessionVars>>

Replace(slotId, body) ==
    /\ Handled([method |-> "PUT", slotId |-> slotId, body |-> body],
               replaceSave(store, slotId, body))
    /\ UNCHANGED <<inflight, responses, mergeVars, engineVars, dialogVars, sessionVars>>

Patch(slotId, body) ==
    /\ Handled([method |-> "PATCH", slotId |-> slotId, body |-> body],
               patchSave(store, slotId, body))
    /\ UNCHANGED <<inflight, responses, mergeVars, engineVars, dialogVars, sessionVars>>

Delete(slotId) ==
    /\ Handled([method |-> "DELETE", slotId |-> slotId],
               deleteSave(store, slotId))
    /\ UNCHANGED <<inflight, responses, mergeVars, engineVars, dialogVars, sessionVars>>

GetLog(slotId, tags) ==
    /\ Handled([method |-> "GET_LOG", slotId |-> slotId, tags |-> tags],
               getLog(store, slotId, tags))
    /\ UNCHANGED <<inflight, responses, mergeVars, engineVars, dialogVars, sessionVars>>

ListSlots ==
    /\ Handled([method |-> "GET_LIST"], listSlots(store))
    /\ UNCHANGED <<inflight, responses, mergeVars, engineVars, dialogVars, sessionVars>>

\* a client sends a PATCH (apiFetch: the fetch is issued, the response awaited)
SendPatch(slotId, body) ==
    /\ Cardinality(inflight) + Cardinality(responses) < MaxReqs
    /\ inflight' = inflight \cup
           {[ id     |-> Cardinality(inflight) + Cardinality(responses) + 1,
              slotId |-> slotId,
              body   |-> body ]}
    /\ UNCHANGED <<store, req, res, responses, mergeVars, engineVars, dialogVars, sessionVars>>

\* the server takes one of the PATCH requests in flight, in any order, and
\* runs the handler on it; the client receives the response
HandlePatch(r) ==
    /\ Handled([method |-> "PATCH", slotId |-> r.slotId, body |-> r.body],
               patchSave(store, r.slotId, r.body))
    /\ inflight' = inflight \ {r}
    /\ responses' = responses \cup
           {[ id     |-> r.id,
              slotId |-> r.slotId,
              body   |-> r.body,
              res    |-> patchSave(store, r.slotId, r.body).res ]}
    /\ UNCHANGED <<mergeVars, engineVars, dialogVars, sessionVars>>

\* the PATCH requests of the racing clients
RaceRequests ==
    SlotIds \X { [seq |-> 0],
                 [seq |-> 0, player |-> [flags |-> [a |-> TRUE]]],
                 [seq |-> 1, appendLog |-> <<EntryB>>],
                 [appendLog |-> <<EntryA>>] }

Next ==
    \/ \E slotId \in SlotIds : Load(slotId)
    \/ \E r \in ReplaceRequests : Replace(r[1], r[2])
    \/ \E r \in PatchRequests : Patch(r[1], r[2])
    \/ \E slotId \in SlotIds : Delete(slotId)
    \/ \E slotId \in SlotIds, tags \in TagQueries : GetLog(slotId, tags)
    \/ ListSlots

Spec == Init /\ [][Next]_vars

\* concurrent PATCH requests only
NextRace ==
    \/ \E r \in RaceRequests : SendPatch(r[1], r[2])
    \/ \E r \in inflight : HandlePatch(r)

SpecRace == Init /\ [][NextRace]_vars

-----------------------------------------------------------------------------
(* The overlay of one room across PATCH requests: app.patch merges the     *)
(* overlay each request carries for the room into the stored one.          *)

Npc2 == [id |-> "guard"]
Item1 == [id |-> "terminal"]

OverlayRoom == "corridor_a"

\* the overlays the GM sends for the room
Overlays ==
    { [addedNpcs |-> <<Npc1>>],
      [addedNpcs |-> <<Npc2, Npc1>>],
      [addedInteractables |-> <<Item1, Item1>>],
      [injectedDialog |-> [archivist |-> <<"ask">>]],
      [injectedDialog |-> [archivist |-> <<"tell">>, guard |-> <<"pass">>]],
      [gmRoom |-> [id |-> "corridor_a"], description |-> "rebuilt"],
      [description |-> "dark"] }

\* save.rooms[roomId].injectedDialog ?? {}
InjectedOf(overlay) ==
    IF Has(overlay, "injectedDialog") THEN overlay.injectedDialog ELSE EmptyObj

\* if (rooms) for (const [roomId, overlay] of Object.entries(rooms)) ...
MergeOverlay(overlay) ==
    LET saveRooms == IF savedOverlay = EmptyObj THEN EmptyObj
                     ELSE [roomId \in {OverlayRoom} |-> savedOverlay]
        rooms == [roomId \in {OverlayRoom} |-> overlay]
        after == mergeRooms(saveRooms, rooms)[OverlayRoom]
    IN  /\ \A npcId \in DOMAIN InjectedOf(after) :
               Len(InjectedOf(after)[npcId]) <= MaxOpts
        /\ savedOverlay' = after
        /\ lastOverlay' = overlay
        /\ UNCHANGED <<serverVars, engineVars, dialogVars, sessionVars>>

NextMerge == \E overlay \in Overlays : MergeOverlay(overlay)

SpecMerge == Init /\ [][NextMerge]_vars

-----------------------------------------------------------------------------
(* The content loader (navigation.js).  A string is a JSON string, except  *)
(* a room description, which is the sequence of its characters so that     *)
(* trim() has something to remove; a YAML exit written as a bare string is *)
(* the record [string |-> target], an exit object is its record.           *)

\* null
Null == "null"

\* !value for a string or null
Falsy(value) == value \in {Null, ""}

Whitespace == {" ", "\n"}

\* String.prototype.trimStart / trimEnd / trim
RECURSIVE trimStart(_)
trimStart(str) ==
    IF str # <<>> /\ Head(str) \in Whitespace THEN trimStart(Tail(str))
    ELSE str

RECURSIVE trimEnd(_)
trimEnd(str) ==
    IF str # <<>> /\ str[Len(str)] \in Whitespace
    THEN trimEnd(SubSeq(str, 1, Len(str) - 1))
    ELSE str

trim(str) == trimEnd(trimStart(str))

\* obj.key ?? fallback
OrElse(obj, key, fallback) == IF Has(obj, key) THEN obj[key] ELSE fallback

\* typeof exit === 'string'
IsString(exit) == DOMAIN exit = {"string"}

\* variant: every exit is wrapped as a target room id
normalizeExitsWrapping(exits) ==
    [dir \in DOMAIN exits |-> [roomId |-> exits[dir]]]

normalizeExits(exits) ==
    [dir \in DOMAIN exits |->
        IF IsString(exits[dir]) THEN [roomId |-> exits[dir].string]
        ELSE exits[dir]]

normalizeNpc(npc) ==
    [id |-> npc.id,
     name |-> OrElse(npc, "name", npc.id),
     description |-> OrElse(npc, "description", ""),
     dialogEntry |-> IF Has(npc, "dialog")
                     THEN OrElse(npc.dialog, "entry", Null)
                     ELSE Null]

normalizeRoom(doc) ==
    [id |-> doc.id,
     name |-> OrElse(doc, "name", doc.id),
     act |-> OrElse(doc, "act", 1),
     description |-> trim(OrElse(doc, "description", <<>>)),
     exits |-> normalizeExits(OrElse(doc, "exits", EmptyObj)),
     npcs |-> [i \in 1..Len(OrElse(doc, "npcs", <<>>)) |->
                  normalizeNpc(doc.npcs[i])],
     interactables |-> OrElse(doc, "interactables", <<>>),
     gmGenerated |-> OrElse(doc, "gmGenerated", FALSE),
     gmSource |-> OrElse(doc, "gmSource", Null),
     gm_hint |-> OrElse(doc, "gm_hint", Null),
     _dialog |-> OrElse(doc, "dialog", EmptyObj)]

\* rooms.update(r => ({ ...r, [room.id]: room }))
registerRoom(registry, room) ==
    Spread(registry, [id \in {room.id} |-> room])

\* room.npcs?.find(n => n.id === npcId): the index of the first, 0 if none
findNpc(room, npcId) ==
    LET hits == {i \in 1..Len(room.npcs) : room.npcs[i].id = npcId}
    IN  IF hits = {} THEN 0 ELSE CHOOSE i \in hits : \A j \in hits : i <= j

\* the guard of injectDialogOptions: room, npc, entry id and entry node exist
injectTarget(registry, roomId, npcId) ==
    /\ Has(registry, roomId)
    /\ findNpc(registry[roomId], npcId) # 0
    /\ LET npc == registry[roomId].npcs[findNpc(registry[roomId], npcId)]
       IN  /\ ~ Falsy(npc.dialogEntry)
           /\ Has(registry[roomId]._dialog, npc.dialogEntry)

\* npc.dialogEntry of the NPC the options go to
entryOf(registry, roomId, npcId) ==
    registry[roomId].npcs[findNpc(registry[roomId], npcId)].dialogEntry

\* variant: the options are appended after all existing options
spliceOptionsAtEnd(existing, options) == existing \o options

\* existing.slice(0, spliceAt) ++ options ++ existing.slice(spliceAt)
spliceOptions(existing, options) ==
    LET spliceAt == IF Len(existing) > 1 THEN Len(existing) - 1
                    ELSE Len(existing)
    IN  SubSeq(existing, 1, spliceAt) \o options
            \o SubSeq(existing, spliceAt + 1, Len(existing))

\* variant: the _dialog map of the room is rebuilt with the entry node alone
withEntryOptionsAlone(registry, roomId, entry, merged) ==
    [registry EXCEPT ![roomId] =
        [registry[roomId] EXCEPT !._dialog =
            [nodeId \in {entry} |->
                Spread(registry[roomId]._dialog[entry], [options |-> merged])]]]

\* { ...roomMap, [roomId]: { ...room, _dialog: { ...room._dialog,
\*     [npc.dialogEntry]: { ...entryNode, options: merged } } } }
withEntryOptions(registry, roomId, entry, merged) ==
    [registry EXCEPT ![roomId] =
        [registry[roomId] EXCEPT !._dialog =
            Spread(registry[roomId]._dialog,
                   [nodeId \in {entry} |->
                       Spread(registry[roomId]._dialog[entry],
                              [options |-> merged])])]]

injectDialogOptions(registry, roomId, npcId, options) ==
    IF ~ injectTarget(registry, roomId, npcId) THEN registry
    ELSE LET entry == entryOf(registry, roomId, npcId)
             entryNode == registry[roomId]._dialog[entry]
         IN  withEntryOptions(registry, roomId, entry,
                 spliceOptions(OrElse(entryNode, "options", <<>>), options))

\* dialog options: authored ones and the ones the GM generates
OptBye == [text |-> "bye"]
OptAsk == [text |-> "ask", next |-> "more"]
Gen1 == [text |-> "g1", source |-> "gm"]
Gen2 == [text |-> "g2", source |-> "gm", next |-> "more"]

GenOptions == {<<Gen1>>, <<Gen2, Gen1>>}

\* the room files of content/
RawDocs ==
    { [id |-> "arrival_bay",
       description |-> <<" ", "b", "a", "y", "\n">>,
       exits |-> [forward |-> [string |-> "corridor_a"]],
       npcs |-> <<[id |-> "archivist", dialog |-> [entry |-> "greet"]]>>,
       dialog |-> [greet |-> [text |-> "hello", options |-> <<OptBye>>]]],
      [id |-> "arrival_bay",
       name |-> "Arrival Bay",
       npcs |-> <<[id |-> "archivist", dialog |-> [entry |-> "greet"]]>>,
       dialog |-> [greet |-> [text |-> "hello"]]],
      [id |-> "corridor_a",
       name |-> "Corridor A",
       act |-> 2,
       description |-> <<"d", "i", "m">>,
       exits |-> [back |-> [roomId |-> "arrival_bay", requires |-> "door_open"]],
       npcs |-> <<[id |-> "guard", name |-> "Guard", description |-> "stern",
                   dialog |-> [entry |-> "halt"]],
                  [id |-> "mute"]>>,
       gm_hint |-> "uneasy",
       dialog |-> [halt |-> [text |-> "halt", options |-> <<OptAsk, OptBye>>],
                   more |-> [text |-> "more", options |-> <<OptBye>>]]],
      [id |-> "corridor_a"] }

RoomIds == {"arrival_bay", "corridor_a"}
NpcIds == {"archivist", "guard", "mute"}

\* loadAllContent, one room file: normalizeRoom, then registerRoom
LoadRoom(doc) ==
    /\ roomMap' = registerRoom(roomMap, normalizeRoom(doc))
    /\ call' = [op |-> "load", doc |-> doc]
    /\ UNCHANGED <<serverVars, mergeVars, dialogVars, sessionVars>>

InjectDialogOptions(roomId, npcId, options) ==
    /\ injectTarget(roomMap, roomId, npcId)
          => Len(OrElse(roomMap[roomId]._dialog[entryOf(roomMap, roomId, npcId)],
                        "options", <<>>)) + Len(options) <= MaxNodeOpts
    /\ roomMap' = injectDialogOptions(roomMap, roomId, npcId, options)
    /\ call' = [op |-> "inject", roomId |-> roomId, npcId |-> npcId,
                options |-> options]
    /\ UNCHANGED <<serverVars, mergeVars, dialogVars, sessionVars>>

NextLoader ==
    \/ \E doc \in RawDocs : LoadRoom(doc)
    \/ \E roomId \in RoomIds, npcId \in NpcIds, options \in GenOptions :
          InjectDialogOptions(roomId, npcId, options)

SpecLoader == Init /\ [][NextLoader]_vars

-----------------------------------------------------------------------------
(* resolveDialogNode (navigation.js) on the dialog maps of a room.  The    *)
(* _visited set is copied for every option, so it holds the node ids on    *)
(* the path from the entry node to the node being resolved.                *)

\* the null a resolved next reference or the whole result can be
NullNode == [null |-> TRUE]

\* variant: no option is taken to carry a next reference
hasNextNever(opt) == FALSE

\* opt.next ? ... : null
hasNext(opt) == ~ Falsy(OrElse(opt, "next", Null))

\* variant: no node id is taken to be a key of the map
knownNodeNever(dialogMap, nodeId) == FALSE

\* !(!nodeId || !dialogMap[nodeId])
knownNode(dialogMap, nodeId) == ~ Falsy(nodeId) /\ Has(dialogMap, nodeId)

\* variant: a node two or more levels below the entry counts as visited
onPathOrDeep(visited, nodeId) ==
    nodeId \in visited \/ Cardinality(visited) >= 2

\* _visited.has(nodeId)
onPath(visited, nodeId) == nodeId \in visited

RECURSIVE resolveDialogNode(_, _, _)
resolveDialogNode(dialogMap, nodeId, visited) ==
    IF ~ knownNode(dialogMap, nodeId) THEN NullNode
    ELSE IF onPath(visited, nodeId) THEN NullNode
    ELSE LET raw == dialogMap[nodeId]
             options == OrElse(raw, "options", <<>>)
         IN  Spread(raw,
                 [options |->
                     [i \in 1..Len(options) |->
                         Spread(options[i],
                             [next |->
                                 IF hasNext(options[i])
                                 THEN resolveDialogNode(dialogMap,
                                          options[i].next,
                                          visited \cup {nodeId})
                                 ELSE NullNode])]])

NodeNames == <<"a", "b", "c", "d">>

NodeIds == {NodeNames[i] : i \in 1..MaxNodes}

\* an option that leads to the node target
NextOpt(target) == [text |-> "go", next |-> target]

\* the option lists of an authored or generated node: none, a terminal
\* option, references to a missing node and to the empty id, one reference,
\* two references
OptionLists ==
    {<<>>, <<OptBye>>, <<NextOpt("zz"), NextOpt("")>>}
        \cup {<<NextOpt(n)>> : n \in NodeIds}
        \cup {<<NextOpt(NodeNames[i]), NextOpt(NodeNames[i + 1])>> :
                 i \in 1..(MaxNodes - 1)}

\* the nodes a map can hold under the id nodeId; one has no options field
NodesOf(nodeId) ==
    {[text |-> nodeId]}
        \cup {[text |-> nodeId, options |-> options] : options \in OptionLists}

\* room._dialog: the maps over the node ids, and the empty map
DialogMaps ==
    {EmptyObj}
        \cup {dialogMap \in [NodeIds -> UNION {NodesOf(n) : n \in NodeIds}] :
                 \A n \in NodeIds : dialogMap[n].text = n}

\* the ids dialog is started with: the nodes, a missing node, the empty id
EntryIds == NodeIds \cup {"zz", ""}

\* a room's dialog map is given, no dialog has been started
InitResolve ==
    /\ InitServer /\ InitMerge /\ InitEngine /\ InitSession
    /\ dlgMap \in DialogMaps
    /\ entryId = ""
    /\ resolved = EmptyObj

\* dialog start: resolveDialogNode(room._dialog, npc.dialogEntry)
Resolve(nodeId) ==
    /\ entryId' = nodeId
    /\ resolved' = resolveDialogNode(dlgMap, nodeId, {})
    /\ UNCHANGED <<dlgMap, serverVars, mergeVars, engineVars, sessionVars>>

NextResolve == \E nodeId \in EntryIds : Resolve(nodeId)

SpecResolve == InitResolve /\ [][NextResolve]_vars

-----------------------------------------------------------------------------
(* A play session (App.svelte, navigation.js, save.js on the client): boot  *)
(* loads the room files, then awaits the save of the slot and applies it;   *)
(* the player moves with navigate, which asks the GM to pre-generate the    *)
(* rooms behind the exits of the room entered.  The save request is         *)
(* awaited, so navigate calls can run before its response is applied.       *)

\* `visited_${roomId}`
VisitedKey(roomId) == "visited_" \o roomId

\* flags.update(f => ({ ...f, [key]: value }))
setFlag(f, key, value) == Spread(f, [k \in {key} |-> value])

\* setFlag(`visited_${roomId}`)
markVisited(f, roomId) == setFlag(f, VisitedKey(roomId), TRUE)

\* !f[condition]
flagUnset(f, condition) == ~ (Has(f, condition) /\ f[condition] = TRUE)

\* typeof exit === 'string' ? exit : exit.roomId
exitTarget(exit) ==
    IF IsString(exit) THEN exit.string ELSE OrElse(exit, "roomId", Null)

\* typeof exit === 'object' ? exit.requires : null
exitCondition(exit) ==
    IF IsString(exit) THEN Null ELSE OrElse(exit, "requires", Null)

ReasonUnmoored == "You are unmoored."
ReasonNothing == "There is nothing in that direction."
ReasonPrevented == "Something prevents you from going that way."
ReasonUnformed == "The way is there, but the space beyond hasn't formed yet."

\* variant: the generic message whatever the exit configures
lockedReasonGeneric(exit) == ReasonPrevented

\* exit.lockedMessage if the exit has one, else the generic message
lockedReason(exit) ==
    IF ~ IsString(exit) /\ ~ Falsy(OrElse(exit, "lockedMessage", Null))
    THEN exit.lockedMessage
    ELSE ReasonPrevented

\* Object.entries order: the keys of obj in the order they were written
ExitOrder == <<"forward", "back", "east", "west", "up", "down">>
RoomOrder == <<"arrival_bay", "corridor_a", "relay", "lab", "vault">>
NpcOrder == <<"archivist", "guard", "mute">>

KeysInOrder(obj, order) == SelectSeq(order, LAMBDA k : k \in DOMAIN obj)

\* variant: gmPrefetchRoom is called for no exit
prefetchTargetsNone(registry, roomId, queue) == <<>>

\* schedulePrefetch: the targets gmPrefetchRoom is called for, in order.
\* queue is the Set read before the loop; gmQueue.update stores a new Set,
\* so the one the loop tests never gains the targets the loop adds.
prefetchTargets(registry, roomId, queue) ==
    IF ~ Has(registry, roomId) \/ ~ Has(registry[roomId], "exits") THEN <<>>
    ELSE LET exits == registry[roomId].exits
             dirs == KeysInOrder(exits, ExitOrder)
             targets == [i \in 1..Len(dirs) |-> exitTarget(exits[dirs[i]])]
         IN  SelectSeq(targets,
                 LAMBDA t : ~ Has(registry, t) /\ t \notin queue)

\* variant: a target that is not registered is entered all the same
targetFormedAlways(registry, targetId) == TRUE

\* !(!roomMap[targetId])
targetFormed(registry, targetId) == Has(registry, targetId)

\* variant: an exit with a condition is locked whatever the flags are
exitLockedAlways(f, exit) == ~ Falsy(exitCondition(exit))

\* if (condition) { if (!f[condition]) ... }
exitLocked(f, exit) ==
    ~ Falsy(exitCondition(exit)) /\ flagUnset(f, exitCondition(exit))

\* variant: a refused move still marks the room the player stands in
refusedMarking(roomId, f, queue, reason) ==
    [result |-> [success |-> FALSE, reason |-> reason],
     currentRoomId |-> roomId, flags |-> markVisited(f, roomId),
     queue |-> queue, issued |-> <<>>]

\* return { success: false, reason }: the stores are as they were and
\* gmPrefetchRoom is not called
refused(roomId, f, queue, reason) ==
    [result |-> [success |-> FALSE, reason |-> reason],
     currentRoomId |-> roomId, flags |-> f, queue |-> queue,
     issued |-> <<>>]

\* navigate(direction) on the stores: the result, the stores it leaves and
\* the room ids it calls gmPrefetchRoom for
navigate(registry, roomId, f, queue, direction) ==
    IF ~ Has(registry, roomId) THEN refused(roomId, f, queue, ReasonUnmoored)
    ELSE IF ~ Has(OrElse(registry[roomId], "exits", EmptyObj), direction)
    THEN refused(roomId, f, queue, ReasonNothing)
    ELSE LET exit == registry[roomId].exits[direction]
             targetId == exitTarget(exit)
         IN  IF exitLocked(f, exit)
             THEN refused(roomId, f, queue, lockedReason(exit))
             ELSE IF ~ targetFormed(registry, targetId)
             THEN refused(roomId, f, queue, ReasonUnformed)
             ELSE LET issued == prefetchTargets(registry, targetId, queue)
                  IN  [result |-> [success |-> TRUE],
                       currentRoomId |-> targetId,
                       flags |-> markVisited(f, targetId),
                       queue |-> queue \cup Range(issued),
                       issued |-> issued]

\* the partial fields of an overlay put on the registered room
applyPartialOverlay(registry, roomId, overlay) ==
    IF ~ Has(registry, roomId) THEN registry
    ELSE LET room == registry[roomId]
             u1 == IF OrElse(overlay, "descriptionOverride", <<>>) # <<>>
                   THEN Spread(room,
                            [description |-> overlay.descriptionOverride])
                   ELSE room
             u2 == IF ArrayOr(overlay, "addedNpcs") # <<>>
                   THEN Spread(u1, [npcs |-> OrElse(room, "npcs", <<>>)
                                                \o overlay.addedNpcs])
                   ELSE u1
             u3 == IF ArrayOr(overlay, "addedInteractables") # <<>>
                   THEN Spread(u2, [interactables |->
                                       OrElse(room, "interactables", <<>>)
                                           \o overlay.addedInteractables])
                   ELSE u2
         IN  Spread(registry, [id \in {roomId} |-> u3])

\* for (const [npcId, options] of Object.entries(overlay.injectedDialog))
RECURSIVE applyInjectedDialog(_, _, _, _)
applyInjectedDialog(registry, roomId, injected, npcIds) ==
    IF npcIds = <<>> THEN registry
    ELSE applyInjectedDialog(
             injectDialogOptions(registry, roomId, Head(npcIds),
                                 injected[Head(npcIds)]),
             roomId, injected, Tail(npcIds))

\* variant: the partial fields are applied under a gmRoom as well
applyRoomOverlayPartialToo(registry, roomId, overlay) ==
    LET base == IF Has(overlay, "gmRoom")
                THEN registerRoom(registry, overlay.gmRoom)
                ELSE registry
        partial == applyPartialOverlay(base, roomId, overlay)
    IN  IF Has(overlay, "injectedDialog")
        THEN applyInjectedDialog(partial, roomId, overlay.injectedDialog,
                 KeysInOrder(overlay.injectedDialog, NpcOrder))
        ELSE partial

\* one turn of the loop of applyRoomOverlays
applyRoomOverlay(registry, roomId, overlay) ==
    IF Has(overlay, "gmRoom") THEN registerRoom(registry, overlay.gmRoom)
    ELSE LET partial == applyPartialOverlay(registry, roomId, overlay)
         IN  IF Has(overlay, "injectedDialog")
             THEN applyInjectedDialog(partial, roomId, overlay.injectedDialog,
                      KeysInOrder(overlay.injectedDialog, NpcOrder))
             ELSE partial

RECURSIVE applyOverlaysOf(_, _, _)
applyOverlaysOf(registry, overlays, roomIds) ==
    IF roomIds = <<>> THEN registry
    ELSE applyOverlaysOf(
             applyRoomOverlay(registry, Head(roomIds), overlays[Head(roomIds)]),
             overlays, Tail(roomIds))

applyRoomOverlays(registry, overlays) ==
    applyOverlaysOf(registry, overlays, KeysInOrder(overlays, RoomOrder))

\* loadAllContent: every room file is normalized and registered
RECURSIVE registerDocs(_, _)
registerDocs(registry, docs) ==
    IF docs = <<>> THEN registry
    ELSE registerDocs(registerRoom(registry, normalizeRoom(Head(docs))),
                      Tail(docs))

\* the room files: the bay with a plain exit, two gated ones and an object
\* that sets the gating flag, the corridor
\* with two exits to the same room nobody authored, the relay room
BayDoc ==
    [id |-> "arrival_bay",
     exits |-> [forward |-> [string |-> "corridor_a"],
                up |-> [roomId |-> "relay", requires |-> "escort",
                        lockedMessage |-> "The relay room is sealed."],
                down |-> [roomId |-> "vault", requires |-> "escort"]],
     npcs |-> <<[id |-> "archivist", dialog |-> [entry |-> "greet"]]>>,
     interactables |-> <<[id |-> "docking_notice", name |-> "Notice Board"],
                         [id |-> "staff_badge", name |-> "Staff Badge",
                          setFlag |-> "escort"]>>,
     dialog |-> [greet |-> [text |-> "hello", options |-> <<OptAsk, OptBye>>]]]

CorridorDoc ==
    [id |-> "corridor_a",
     exits |-> [back |-> [string |-> "arrival_bay"],
                east |-> [string |-> "lab"],
                west |-> [roomId |-> "lab"]]]

RelayDoc ==
    [id |-> "relay",
     exits |-> [back |-> [string |-> "arrival_bay"]]]

\* content/: with and without the rooms behind the bay
Worlds == {<<BayDoc, CorridorDoc, RelayDoc>>, <<BayDoc>>}

\* the room GMStub.prefetchRoom returns, as a stored overlay carries it
StubRoom(roomId, fromRoomId) ==
    [id |-> roomId, name |-> "[STUB]", description |-> <<"s">>,
     gmGenerated |-> TRUE, gmSource |-> "stub",
     exits |-> [back |-> [string |-> fromRoomId]],
     npcs |-> <<>>, interactables |-> <<[id |-> "stub_sign"]>>]

\* the saves GET /saves/:slotId answers the boot with
BootSaves ==
    { makeEmptySave(Slot1),
      [player |-> [currentRoomId |-> "corridor_a", act |-> 2,
                   flags |-> [escort |-> TRUE, visited_corridor_a |-> TRUE],
                   inventory |-> <<"x">>],
       rooms |-> EmptyObj],
      [player |-> [currentRoomId |-> "vault", act |-> 1,
                   flags |-> EmptyObj, inventory |-> <<>>],
       rooms |-> EmptyObj],
      [player |-> [currentRoomId |-> "arrival_bay", act |-> 1,
                   flags |-> EmptyObj, inventory |-> <<>>],
       rooms |-> [lab |-> [gmRoom |-> StubRoom("lab", "corridor_a"),
                           descriptionOverride |-> <<"o">>,
                           addedNpcs |-> <<Npc2>>],
                  arrival_bay |-> [descriptionOverride |-> <<"d", "i", "m">>,
                                   addedNpcs |-> <<Npc2>>,
                                   addedInteractables |-> <<Item1>>,
                                   injectedDialog |->
                                       [archivist |-> <<Gen1>>]]]] }

Directions == {"forward", "back", "east", "west", "up", "down"}

\* onMount: loadAllContent()
LoadAllContent(docs) ==
    /\ boot = "start"
    /\ roomMap' = registerDocs(roomMap, docs)
    /\ call' = [op |-> "loadAllContent"]
    /\ boot' = "content"
    /\ UNCHANGED <<currentRoomId, currentAct, flags, inventory, gmQueue,
                   gmCalls, navResult, serverVars, mergeVars, dialogVars>>

\* onMount: the awaited save.load(SLOT) returns data; applyPlayerState and
\* applyRoomOverlays run on it
BootLoad(data) ==
    /\ boot = "content"
    /\ currentRoomId' = IF ~ Falsy(OrElse(data.player, "currentRoomId", Null))
                        THEN data.player.currentRoomId ELSE currentRoomId
    /\ currentAct' = IF OrElse(data.player, "act", 0) # 0
                     THEN data.player.act ELSE currentAct
    /\ flags' = Spread(flags, OrElse(data.player, "flags", EmptyObj))
    /\ inventory' = SetOrder(inventory
                                \o OrElse(data.player, "inventory", <<>>))
    /\ roomMap' = applyRoomOverlays(roomMap, OrElse(data, "rooms", EmptyObj))
    /\ call' = [op |-> "load", rooms |-> OrElse(data, "rooms", EmptyObj)]
    /\ boot' = "ready"
    /\ UNCHANGED <<gmQueue, gmCalls, navResult,
                   serverVars, mergeVars, dialogVars>>

\* onMount: save.load failed (server not running): markVisited('arrival_bay')
BootOffline ==
    /\ boot = "content"
    /\ flags' = markVisited(flags, "arrival_bay")
    /\ call' = [op |-> "offline"]
    /\ boot' = "ready"
    /\ UNCHANGED <<roomMap, currentRoomId, currentAct, inventory, gmQueue,
                   gmCalls, navResult, serverVars, mergeVars, dialogVars>>

\* tryNavigate(direction): navigate(direction)
Navigate(direction) ==
    /\ boot # "start"
    /\ LET r == navigate(roomMap, currentRoomId, flags, gmQueue, direction)
       IN  /\ navResult' = r.result
           /\ currentRoomId' = r.currentRoomId
           /\ flags' = r.flags
           /\ gmQueue' = r.queue
           /\ gmCalls' = gmCalls
                 \o [i \in 1..Len(r.issued) |->
                        [roomId |-> r.issued[i],
                         fromRoomId |-> r.currentRoomId,
                         settled |-> FALSE]]
    /\ call' = [op |-> "navigate", direction |-> direction]
    /\ UNCHANGED <<roomMap, currentAct, inventory, boot,
                   serverVars, mergeVars, dialogVars>>

\* the promise of a gmPrefetchRoom call settles with the generated room;
\* schedulePrefetch kept no reference to the promise, so the room is dropped
SettlePrefetch(i) ==
    /\ ~ gmCalls[i].settled
    /\ gmCalls' = [gmCalls EXCEPT ![i].settled = TRUE]
    /\ call' = [op |-> "prefetched", roomId |-> gmCalls[i].roomId]
    /\ UNCHANGED <<roomMap, currentRoomId, currentAct, flags, inventory,
                   gmQueue, navResult, boot,
                   serverVars, mergeVars, dialogVars>>

\* a dialog option with a side effect sets a flag: setFlag(key)
SetFlag(key) ==
    /\ boot # "start"
    /\ flags' = setFlag(flags, key, TRUE)
    /\ call' = [op |-> "setFlag", key |-> key]
    /\ UNCHANGED <<roomMap, currentRoomId, currentAct, inventory, gmQueue,
                   gmCalls, navResult, boot,
                   serverVars, mergeVars, dialogVars>>

NextSession ==
    \/ \E docs \in Worlds : LoadAllContent(docs)
    \/ \E data \in BootSaves : BootLoad(data)
    \/ BootOffline
    \/ \E direction \in Directions : Navigate(direction)
    \/ \E i \in 1..Len(gmCalls) : SettlePrefetch(i)
    \/ SetFlag("escort")

SpecSession == Init /\ [][NextSession]_vars

\* every step that can be taken is taken in the end
SpecSessionFair == SpecSession /\ WF_vars(NextSession)

-----------------------------------------------------------------------------
(* The client save API (save.js) between the app and the save server.  The  *)
(* app mounts, loads the room files and sends the GET of its slot; every    *)
(* successful move and every use of an object sends a PATCH that is not     *)
(* awaited.  Other callers of save.patch send diffs that carry the seq they *)
(* loaded, and read the log of a slot.  The server answers the requests in  *)
(* flight one at a time, in any order; apiFetch turns each response into    *)
(* the value the caller's promise settles with.                             *)

\* res.json(): the response without its status line.  A save or a log is kept
\* under body, the fields of the other answers are the fields of the JSON.
jsonOf(response) == [k \in DOMAIN response \ {"status"} |-> response[k]]

\* res.ok: the status is in the range 200-299
resOk(response) == response.status \in 200..299

\* variant: a 409 is thrown like every other status outside 200-299
apiFetchThrowing(response) ==
    IF ~ resOk(response)
    THEN [thrown |-> TRUE, value |-> [status |-> response.status]]
    ELSE [thrown |-> FALSE, value |-> jsonOf(response)]

\* apiFetch, from the response on: what the promise settles with
apiFetch(response) ==
    IF response.status = 409
    THEN [thrown |-> FALSE,
          value  |-> Spread([ok |-> FALSE, drifted |-> TRUE],
                            jsonOf(response))]
    ELSE IF ~ resOk(response)
    THEN [thrown |-> TRUE, value |-> [status |-> response.status]]
    ELSE [thrown |-> FALSE, value |-> jsonOf(response)]

\* save.playerDiff()
playerDiff(roomId, act, f, items) ==
    [currentRoomId |-> roomId, act |-> act, flags |-> f, inventory |-> items]

\* makeEntry(type, tags, data), without the time stamp
makeEntry(act, type, tags, data) ==
    [type |-> type, act |-> act,
     tags |-> SetOrder(<<"act:" \o ToString(act)>> \o tags),
     data |-> data]

entryRoomEntered(act, roomId, gmGenerated) ==
    makeEntry(act, "room_entered",
              <<"room:" \o roomId>>
                  \o (IF gmGenerated THEN <<"gm_action">> ELSE <<>>),
              [roomId |-> roomId, gmGenerated |-> gmGenerated])

entryInteractableUsed(act, roomId, itemId, itemName) ==
    makeEntry(act, "interactable_used", <<"room:" \o roomId>>,
              [roomId |-> roomId, itemId |-> itemId, itemName |-> itemName])

\* examine(item): the flags store after the call.  The flag of the object
\* goes into the diff only; setFlag is not called.
examineFlags(f, item) == f

\* examine(item): the diff sent
examineDiff(act, roomId, item) ==
    LET diff == [appendLog |-> <<entryInteractableUsed(act, roomId, item.id,
                                     OrElse(item, "name", Null))>>]
    IN  IF Has(item, "setFlag")
        THEN Spread(diff, [player |->
                              [flags |-> [k \in {item.setFlag} |-> TRUE]]])
        ELSE diff

\* room?.gmGenerated ?? false
gmGeneratedOf(registry, roomId) ==
    Has(registry, roomId) /\ OrElse(registry[roomId], "gmGenerated", FALSE)

\* const SLOT = 'slot_1'
SLOT == Slot1

\* the requests sent so far; the model sends no more than MaxReqs
Sent == Cardinality(inflight) + Cardinality(responses)

\* fetch(`${SERVER}${path}`, { method, body }); id is the order of sending
Request(from, method, slotId, body) ==
    [id |-> Sent + 1, from |-> from, method |-> method, slotId |-> slotId,
     body |-> body]

\* the promise onMount awaits, settled and not yet resumed
AwaitedLoad(rsp) ==
    rsp.from = "app" /\ rsp.method = "GET" /\ boot = "content"

\* content/ of the app
AppContent == <<BayDoc, CorridorDoc, RelayDoc>>

\* diffs other callers of save.patch send, with the seq they last loaded
CallerDiffs ==
    { [seq |-> 0, player |-> [flags |-> [a |-> TRUE]]],
      [seq |-> 1, appendLog |-> <<EntryB>>] }

\* onMount: loadAllContent(), then save.load(SLOT) sends its GET and awaits
Mount ==
    /\ boot = "start"
    /\ roomMap' = registerDocs(roomMap, AppContent)
    /\ inflight' = inflight \cup {Request("app", "GET", SLOT, EmptyObj)}
    /\ boot' = "content"
    /\ call' = [op |-> "mount"]
    /\ UNCHANGED <<store, req, res, responses, currentRoomId, currentAct,
                   flags, inventory, gmQueue, gmCalls, navResult,
                   mergeVars, dialogVars>>

\* the server runs the handler of a request in flight and apiFetch settles
\* the caller's promise with the response
Serve(r) ==
    LET result == IF r.method = "PATCH"
                  THEN patchSave(store, r.slotId, r.body)
                  ELSE IF r.method = "GET" THEN loadSave(store, r.slotId)
                  ELSE getLog(store, r.slotId, <<>>)
    IN  /\ Handled([method |-> r.method, slotId |-> r.slotId,
                    body |-> r.body], result)
        /\ inflight' = inflight \ {r}
        /\ responses' = responses \cup
               {[id |-> r.id, from |-> r.from, method |-> r.method,
                 slotId |-> r.slotId, body |-> r.body,
                 outcome |-> apiFetch(result.res)]}
        /\ call' = [op |-> "settled", id |-> r.id]
        /\ UNCHANGED <<roomMap, mergeVars, dialogVars, sessionVars>>

\* save.load(SLOT) after its await: applyPlayerState and applyRoomOverlays on
\* the save apiFetch returned
ApplyLoad(rsp) ==
    /\ AwaitedLoad(rsp)
    /\ ~ rsp.outcome.thrown
    /\ BootLoad(rsp.outcome.value.body)

\* tryNavigate(direction): navigate, and on success the patch of the player
\* and the room_entered entry.  room is a reactive declaration, which Svelte
\* has not re-run by then: it still is the room the player left.
TryNavigate(direction) ==
    /\ boot # "start"
    /\ LET r == navigate(roomMap, currentRoomId, flags, gmQueue, direction)
       IN  /\ r.result.success => Sent < MaxReqs
           /\ navResult' = r.result
           /\ currentRoomId' = r.currentRoomId
           /\ flags' = r.flags
           /\ gmQueue' = r.queue
           /\ gmCalls' = gmCalls
                 \o [i \in 1..Len(r.issued) |->
                        [roomId |-> r.issued[i],
                         fromRoomId |-> r.currentRoomId,
                         settled |-> FALSE]]
           /\ inflight' =
                 IF r.result.success
                 THEN inflight \cup
                      {Request("app", "PATCH", SLOT,
                           [player |-> playerDiff(r.currentRoomId, currentAct,
                                                  r.flags, inventory),
                            appendLog |->
                                <<entryRoomEntered(currentAct, r.currentRoomId,
                                      gmGeneratedOf(roomMap, currentRoomId))>>])}
                 ELSE inflight
    /\ call' = [op |-> "navigate", direction |-> direction]
    /\ UNCHANGED <<store, req, res, responses, roomMap, currentAct, inventory,
                   boot, mergeVars, dialogVars>>

\* examine(item) on an object of the room shown
Examine(i) ==
    /\ boot # "start"
    /\ Has(roomMap, currentRoomId)
    /\ i \in 1..Len(roomMap[currentRoomId].interactables)
    /\ Sent < MaxReqs
    /\ flags' = examineFlags(flags, roomMap[currentRoomId].interactables[i])
    /\ inflight' = inflight \cup
           {Request("app", "PATCH", SLOT,
                examineDiff(currentAct, currentRoomId,
                            roomMap[currentRoomId].interactables[i]))}
    /\ call' = [op |-> "examine",
                item |-> roomMap[currentRoomId].interactables[i]]
    /\ UNCHANGED <<store, req, res, responses, roomMap, currentRoomId,
                   currentAct, inventory, gmQueue, gmCalls, navResult, boot,
                   mergeVars, dialogVars>>

\* another caller: save.patch(SLOT, diff) with a diff that carries a seq
CallerPatch(diff) ==
    /\ Sent < MaxReqs
    /\ inflight' = inflight \cup {Request("caller", "PATCH", SLOT, diff)}
    /\ UNCHANGED <<store, req, res, responses, mergeVars, engineVars,
                   dialogVars, sessionVars>>

\* another caller: save.getLog(slotId)
CallerGetLog(slotId) ==
    /\ Sent < MaxReqs
    /\ inflight' = inflight \cup {Request("caller", "GET_LOG", slotId, EmptyObj)}
    /\ UNCHANGED <<store, req, res, responses, mergeVars, engineVars,
                   dialogVars, sessionVars>>

\* getAvailableExits(): one entry per exit of the room, lock state resolved
getAvailableExits(registry, roomId, f) ==
    IF ~ Has(registry, roomId) \/ ~ Has(registry[roomId], "exits") THEN <<>>
    ELSE LET exits == registry[roomId].exits
             dirs == KeysInOrder(exits, ExitOrder)
         IN  [i \in 1..Len(dirs) |->
                 [direction |-> dirs[i],
                  targetId |-> exitTarget(exits[dirs[i]]),
                  locked |-> exitLocked(f, exits[dirs[i]]),
                  lockedMessage |-> IF IsString(exits[dirs[i]]) THEN Null
                                    ELSE OrElse(exits[dirs[i]], "lockedMessage",
                                                Null)]]

\* names(xs): {item.name} of every list entry
namesOf(xs) == [i \in 1..Len(xs) |-> OrElse(xs[i], "name", Null)]

\* the room view of App.svelte: what the template puts on the page for the
\* room shown (header with the GM badge, description, exit buttons, people,
\* objects)
roomView(registry, roomId, f) ==
    IF ~ Has(registry, roomId) THEN [loading |-> TRUE]
    ELSE LET room == registry[roomId]
             exits == getAvailableExits(registry, roomId, f)
         IN  [name |-> OrElse(room, "name", Null),
              badge |-> IF OrElse(room, "gmGenerated", FALSE)
                        THEN "GM" ELSE Null,
              description |-> OrElse(room, "description", <<>>),
              exits |-> [i \in 1..Len(exits) |->
                            [label |-> exits[i].direction,
                             disabled |-> exits[i].locked,
                             title |-> IF exits[i].locked
                                       THEN exits[i].lockedMessage ELSE Null]],
              npcs |-> namesOf(OrElse(room, "npcs", <<>>)),
              interactables |-> namesOf(OrElse(room, "interactables", <<>>))]

NextClient ==
    \/ Mount
    \/ \E r \in inflight : Serve(r)
    \/ \E rsp \in responses : ApplyLoad(rsp)
    \/ \E direction \in {"forward", "back", "up"} : TryNavigate(direction)
    \/ \E i \in 1..2 : Examine(i)
    \/ \E diff \in CallerDiffs : CallerPatch(diff)
    \/ CallerGetLog(Slot9)

SpecClient == Init /\ [][NextClient]_vars

-----------------------------------------------------------------------------
(* Properties.  In a step of Spec the handler ran on req' from the          *)
(* directory store and left store' and res'.                                *)

File(request) == savePath(request.slotId)

PatchOn(request) == request.method = "PATCH"

\* the seq the patch handler compares with: the file's, or a fresh save's
ServerSeq(st, request) ==
    IF existsSync(st, File(request)) THEN st[File(request)].seq ELSE 0

\* C1: a PATCH whose body seq equals the stored seq N of an existing slot is
\* accepted, the stored seq becomes N + 1 and the response carries N + 1,
\* whatever else the body holds.
C1_ExpectedSeqAccepted ==
    [][ ( /\ PatchOn(req')
          /\ existsSync(store, File(req'))
          /\ Has(req'.body, "seq")
          /\ store[File(req')].seq # Undefined
          /\ req'.body.seq = store[File(req')].seq )
        => ( /\ res'.status = 200
             /\ res'.seq = store[File(req')].seq + 1
             /\ existsSync(store', File(req'))
             /\ store'[File(req')].seq = store[File(req')].seq + 1 ) ]_vars

\* an empty diff sent with seq 1 was accepted and the slot is at seq 2
C1_Witness ==
    /\ PatchOn(req)
    /\ DOMAIN req.body = {"seq"}
    /\ req.body.seq = 1
    /\ res.status = 200
    /\ res.seq = 2
    /\ store[File(req)].seq = 2

\* C2: a PATCH whose body seq differs from the stored seq is answered 409 with
\* the client's and the server's seq, and the directory is left as it was.
C2_StaleSeqRejected ==
    [][ ( /\ PatchOn(req')
          /\ Has(req'.body, "seq")
          /\ req'.body.seq # ServerSeq(store, req') )
        => ( /\ res'.status = 409
             /\ res'.clientSeq = req'.body.seq
             /\ res'.serverSeq = ServerSeq(store, req')
             /\ store' = store ) ]_vars

\* a stale patch carrying log entries met a slot at seq 1: 409,
\* and the stored log is still empty
C2_Witness ==
    /\ PatchOn(req)
    /\ Has(req.body, "seq") /\ req.body.seq = 0
    /\ Has(req.body, "appendLog") /\ Len(req.body.appendLog) = 2
    /\ res.status = 409
    /\ res.clientSeq = 0
    /\ res.serverSeq = 1
    /\ existsSync(store, File(req))
    /\ store[File(req)].seq = 1
    /\ store[File(req)].log = <<>>

\* C3: of the concurrent PATCH requests to one save file that carry the same
\* seq, at most one is accepted, in whatever order the server takes them.
C3_OneWinnerPerSeq ==
    \A r1, r2 \in responses :
        ( /\ r1.id # r2.id
          /\ savePath(r1.slotId) = savePath(r2.slotId)
          /\ Has(r1.body, "seq") /\ Has(r2.body, "seq")
          /\ r1.body.seq = r2.body.seq
          /\ r1.res.status = 200 )
        => r2.res.status = 409

\* two patches with seq 0 for the same file were both answered: one 200, one 409
C3_Witness ==
    \E r1, r2 \in responses :
        /\ r1.id # r2.id
        /\ savePath(r1.slotId) = savePath(r2.slotId)
        /\ Has(r1.body, "seq") /\ Has(r2.body, "seq")
        /\ r1.body.seq = 0 /\ r2.body.seq = 0
        /\ r1.res.status = 200
        /\ r2.res.status = 409
        /\ r2.res.serverSeq = 1

\* C4: while a slot exists its stored seq is a number and no load, patch,
\* replace or log read lowers it.
C4_SeqNeverDecreases ==
    [][ \A p \in (DOMAIN store) \cap (DOMAIN store') :
            req'.method \in {"GET", "PATCH", "PUT", "GET_LOG"}
            => ( /\ store'[p].seq # Undefined
                 /\ store'[p].seq >= store[p].seq ) ]_vars

\* C5: an accepted patch with player.flags stores the union of the stored and
\* the incoming flags, the incoming value winning.
C5_FlagsUnion ==
    [][ ( /\ PatchOn(req')
          /\ res'.status = 200
          /\ existsSync(store, File(req'))
          /\ Has(req'.body, "player")
          /\ Has(req'.body.player, "flags") )
        => store'[File(req')].player.flags
             = Spread(store[File(req')].player.flags, req'.body.player.flags) ]_vars

\* C6: an accepted patch with player.inventory stores the stored items followed
\* by the incoming items not yet stored, each once.
C6_InventoryUnion ==
    [][ ( /\ PatchOn(req')
          /\ res'.status = 200
          /\ existsSync(store, File(req'))
          /\ Has(req'.body, "player")
          /\ Has(req'.body.player, "inventory") )
        => store'[File(req')].player.inventory
             = SetOrder(store[File(req')].player.inventory
                            \o req'.body.player.inventory) ]_vars

\* C7: a flag stored as true is still stored as true after an accepted patch.
C7_FlagsMonotone ==
    [][ ( /\ PatchOn(req')
          /\ res'.status = 200
          /\ existsSync(store, File(req')) )
        => \A k \in DOMAIN store[File(req')].player.flags :
               store[File(req')].player.flags[k] = TRUE
               => ( /\ k \in DOMAIN store'[File(req')].player.flags
                    /\ store'[File(req')].player.flags[k] = TRUE ) ]_vars

\* C8: after an accepted patch the stored log is the log stored before followed
\* by the entries of appendLog in their order; without appendLog it is the same.
C8_LogAppendOnly ==
    [][ ( PatchOn(req') /\ res'.status = 200 )
        => store'[File(req')].log
             = (IF existsSync(store, File(req'))
                THEN store[File(req')].log ELSE <<>>)
               \o (IF Has(req'.body, "appendLog")
                   THEN req'.body.appendLog ELSE <<>>) ]_vars

\* two entries were appended behind an entry already stored
C8_Witness ==
    /\ PatchOn(req)
    /\ res.status = 200
    /\ Has(req.body, "appendLog")
    /\ req.body.appendLog = <<EntryA, EntryB>>
    /\ store[File(req)].log = <<EntryB, EntryA, EntryB>>

\* C9: loading a slot without a save file writes the initial save (seq 0, act 1,
\* arrival_bay, nothing else), returns it, and the next load returns it again.
C9_FirstLoadCreates ==
    [][ ( req'.method = "GET" /\ ~ existsSync(store, File(req')) )
        => ( /\ existsSync(store', File(req'))
             /\ store'[File(req')] = res'.body
             /\ res'.status = 200
             /\ res'.body.seq = 0
             /\ res'.body.slotId = req'.slotId
             /\ res'.body.player.act = 1
             /\ res'.body.player.currentRoomId = "arrival_bay"
             /\ res'.body.player.flags = EmptyObj
             /\ res'.body.player.inventory = <<>>
             /\ res'.body.rooms = EmptyObj
             /\ res'.body.log = <<>>
             /\ loadSave(store', req'.slotId).res = res'
             /\ loadSave(store', req'.slotId).store = store' ) ]_vars

\* slot_9 was loaded while only slot_1 had a file holding a log: slot_9 now has
\* the initial save, which is what the load returned
C9_Witness ==
    /\ req.method = "GET"
    /\ req.slotId = Slot9
    /\ existsSync(store, File(req))
    /\ res.body = store[File(req)]
    /\ res.body.seq = 0
    /\ res.body.log = <<>>
    /\ existsSync(store, savePath(Slot1))
    /\ store[savePath(Slot1)].log # <<>>

\* C10: a load of an existing slot, a log read and the slot list leave the
\* directory as it was, and a log read of a missing slot answers 404.
C10_ReadsDoNotWrite ==
    [][ ( \/ req'.method \in {"GET_LOG", "GET_LIST"}
          \/ req'.method = "GET" /\ existsSync(store, File(req')) )
        => ( /\ store' = store
             /\ ( req'.method = "GET_LOG" /\ ~ existsSync(store, File(req')) )
                    => res'.status = 404 ) ]_vars

\* the log of a missing slot was asked for while another slot holds a log
C10_Witness ==
    /\ req.method = "GET_LOG"
    /\ res.status = 404
    /\ ~ existsSync(store, File(req))
    /\ existsSync(store, savePath(Slot1))
    /\ store[savePath(Slot1)].log # <<>>

\* C11: a slot that exists can be deleted in every state a handler leaves
\* the saves directory in; the delete removes its file,
\* and the load that follows returns and stores the initial save whatever the
\* file held.
C11_DeleteThenFresh ==
    [][ /\ store' # store
            => \A slotId \in SlotIds :
                  existsSync(store', savePath(slotId))
                  => ( /\ deleteSave(store', slotId).res.status = 200
                       /\ ~ existsSync(deleteSave(store', slotId).store,
                                       savePath(slotId)) )
        /\ req'.method = "DELETE"
            => ( /\ ~ existsSync(store', File(req'))
                 /\ res'.status = 200
                 /\ LET next == loadSave(store', req'.slotId)
                    IN  /\ next.res.body.seq = 0
                        /\ next.res.body.log = <<>>
                        /\ next.res.body.player.flags = EmptyObj
                        /\ next.res.body.player.inventory = <<>>
                        /\ next.res.body.rooms = EmptyObj
                        /\ next.store[File(req')] = next.res.body ) ]_vars

\* slot_1 was deleted while slot_9 holds a save that was patched
C11_Witness ==
    /\ req.method = "DELETE"
    /\ req.slotId = Slot1
    /\ ~ existsSync(store, savePath(Slot1))
    /\ existsSync(store, savePath(Slot9))
    /\ store[savePath(Slot9)].seq > 0

\* C12: a load, patch, replace or delete addressed to one slot id leaves the
\* save of every other slot id as it was.
C12_SlotsIndependent ==
    [][ req'.method \in {"GET", "PATCH", "PUT", "DELETE"}
        => \A other \in SlotIds \ {req'.slotId} :
              /\ existsSync(store', savePath(other))
                    = existsSync(store, savePath(other))
              /\ existsSync(store, savePath(other))
                    => store'[savePath(other)] = store[savePath(other)] ]_vars

\* the entries the claim selects: those whose tags include every tag asked for
EntriesTagged(log, wanted) ==
    SelectSeq(log, LAMBDA entry : wanted \subseteq Range(entry.tags))

\* C13: the log route returns, in stored order, the entries that carry every
\* tag of the query, and the whole log when the query names no tag; filterLog
\* selects the same entries.
C13_TagFilterConjunctive ==
    [][ ( req'.method = "GET_LOG" /\ existsSync(store, File(req')) )
        => ( /\ res'.status = 200
             /\ res'.body = EntriesTagged(store[File(req')].log,
                                          Range(req'.tags) \ {""})
             /\ (Range(req'.tags) \ {""} = {}) => res'.body = store[File(req')].log
             /\ filterLog(store[File(req')].log, requiredTags(req'.tags))
                    = res'.body ) ]_vars

\* of a log holding an entry tagged room:a, gm_action and entries tagged room:a
\* only, the query room:a,gm_action returned the first alone
C13_Witness ==
    /\ req.method = "GET_LOG"
    /\ req.tags = <<"room:a", "", "gm_action">>
    /\ res.status = 200
    /\ res.body = <<EntryA>>
    /\ store[File(req)].log = <<EntryB, EntryA, EntryB>>

-----------------------------------------------------------------------------
(* Properties of the overlay merge.  In a step of SpecMerge the overlay     *)
(* lastOverlay' was merged into savedOverlay, giving savedOverlay'.         *)

Ids(xs) == [i \in 1..Len(xs) |-> xs[i].id]

NoDuplicates(xs) == \A i, j \in 1..Len(xs) : xs[i] = xs[j] => i = j

IsPrefix(xs, ys) == Len(xs) <= Len(ys) /\ SubSeq(ys, 1, Len(xs)) = xs

\* C14: when the incoming overlay carries a gmRoom, the merged
\* overlay is the incoming one and nothing of the existing overlay is left.
C14_GmRoomReplaces ==
    [][ Has(lastOverlay', "gmRoom")
        => /\ DOMAIN savedOverlay' = DOMAIN lastOverlay'
           /\ \A f \in DOMAIN lastOverlay' : savedOverlay'[f] = lastOverlay'[f]
      ]_vars

\* C14 amended: when the incoming overlay carries a gmRoom, the merged overlay
\* holds that gmRoom verbatim and every other field of the incoming overlay,
\* and every field of the existing overlay that the incoming one does not
\* carry survives unchanged.
C14_GmRoomMerged ==
    [][ Has(lastOverlay', "gmRoom")
        => /\ DOMAIN savedOverlay' = DOMAIN savedOverlay \cup DOMAIN lastOverlay'
           /\ savedOverlay'.gmRoom = lastOverlay'.gmRoom
           /\ \A f \in DOMAIN lastOverlay' \
                        {"addedNpcs", "addedInteractables", "injectedDialog"} :
                 savedOverlay'[f] = lastOverlay'[f]
           /\ \A f \in DOMAIN savedOverlay \ DOMAIN lastOverlay' :
                 savedOverlay'[f] = savedOverlay[f]
      ]_vars

C14_Witness ==
    /\ Has(lastOverlay, "gmRoom")
    /\ Has(savedOverlay, "gmRoom")
    /\ savedOverlay.gmRoom = lastOverlay.gmRoom
    /\ Has(savedOverlay, "addedNpcs")
    /\ savedOverlay.addedNpcs = <<Npc1, Npc2>>
    /\ Has(savedOverlay, "injectedDialog")

\* C15: addedNpcs and addedInteractables are a union by id: the existing
\* entries stay first in their order, the incoming entries with new ids
\* follow in incoming order, and no id occurs twice in the result.
C15_ListsUnionById ==
    [][ \A field \in {"addedNpcs", "addedInteractables"} :
          Has(lastOverlay', field)
          => LET before == ArrayOr(savedOverlay, field)
                 after == ArrayOr(savedOverlay', field)
                 fresh == SelectSeq(lastOverlay'[field],
                                    LAMBDA n : n.id \notin Range(Ids(before)))
             IN  /\ IsPrefix(before, after)
                 /\ Ids(after) = Ids(before) \o SetOrder(Ids(fresh))
                 /\ NoDuplicates(Ids(after))
      ]_vars

\* C16: for every NPC key the injected options after a merge are the
\* existing options followed by the incoming ones, keys the incoming overlay
\* does not name are unchanged, so each stored list only grows and the
\* earlier list is a prefix of the later one.
C16_InjectedDialogAppends ==
    [][ LET before == InjectedOf(savedOverlay)
            after == InjectedOf(savedOverlay')
            incoming == InjectedOf(lastOverlay')
        IN  /\ DOMAIN after = DOMAIN before \cup DOMAIN incoming
            /\ \A npcId \in DOMAIN after :
                  /\ after[npcId] = ArrayOr(before, npcId)
                                        \o ArrayOr(incoming, npcId)
                  /\ IsPrefix(ArrayOr(before, npcId), after[npcId])
                  /\ npcId \notin DOMAIN incoming
                        => after[npcId] = before[npcId]
      ]_vars

C16_Witness ==
    /\ lastOverlay = [injectedDialog |->
                         [archivist |-> <<"tell">>, guard |-> <<"pass">>]]
    /\ InjectedOf(savedOverlay) =
          [archivist |-> <<"ask", "tell">>, guard |-> <<"pass">>]

\* C17: merging the overlay that was merged last a second time gives the
\* overlay the first merge gave: no id and no injected option is duplicated.
C17_MergeIdempotent ==
    [][ lastOverlay' = lastOverlay => savedOverlay' = savedOverlay ]_vars

-----------------------------------------------------------------------------
(* Properties of the loader.  In a step of SpecLoader the call call' ran   *)
(* on roomMap, giving roomMap'.                                            *)

\* the options of the entry node of the NPC an inject call names
EntryOptions(registry, c) ==
    OrElse(registry[c.roomId]._dialog[entryOf(registry, c.roomId, c.npcId)],
           "options", <<>>)

C19_NormalizeIdempotent ==
    call.op = "load"
    => normalizeRoom(normalizeRoom(call.doc)) = normalizeRoom(call.doc)

\* the fields of a normalized room other than the dialog map
RoomFields ==
    {"id", "name", "act", "description", "exits", "interactables",
     "gmGenerated", "gmSource", "gm_hint"}

\* C19 amended: normalizing the normalized room of a room file gives a room
\* with the same id, name, act, description, exits, interactables and GM
\* fields and the same NPC ids, names and descriptions; its dialog map is
\* empty and the dialog entry of every NPC is null.
C19_NormalizeTwiceDropsDialog ==
    call.op = "load"
    => LET once == normalizeRoom(call.doc)
           twice == normalizeRoom(once)
       IN  /\ DOMAIN twice = DOMAIN once
           /\ \A f \in RoomFields : twice[f] = once[f]
           /\ twice._dialog = EmptyObj
           /\ Len(twice.npcs) = Len(once.npcs)
           /\ \A i \in 1..Len(once.npcs) :
                 /\ twice.npcs[i].id = once.npcs[i].id
                 /\ twice.npcs[i].name = once.npcs[i].name
                 /\ twice.npcs[i].description = once.npcs[i].description
                 /\ twice.npcs[i].dialogEntry = Null

C19_Witness ==
    /\ call.op = "load"
    /\ call.doc.id = "arrival_bay"
    /\ Has(call.doc, "description")
    /\ roomMap["arrival_bay"] = normalizeRoom(call.doc)
    /\ roomMap["arrival_bay"].description = <<"b", "a", "y">>
    /\ roomMap["arrival_bay"].exits = [forward |-> [roomId |-> "corridor_a"]]
    /\ roomMap["arrival_bay"].npcs[1].dialogEntry = "greet"
    /\ Has(roomMap["arrival_bay"]._dialog, "greet")
    /\ normalizeRoom(roomMap["arrival_bay"]).npcs[1].dialogEntry = Null

-----------------------------------------------------------------------------
(* Properties of resolveDialogNode.  In SpecResolve resolved is the tree   *)
(* returned for entryId on dlgMap, or EmptyObj before the first call.      *)

\* the longest chain of nodes in a resolved tree
RECURSIVE Depth(_)
Depth(node) ==
    IF node = NullNode THEN 0
    ELSE LET below == {Depth(node.options[i].next) :
                          i \in 1..Len(node.options)}
         IN  1 + (IF below = {} THEN 0
                  ELSE CHOOSE d \in below : \A e \in below : e <= d)

\* node is the tree of nodeId below the path: every option whose reference
\* is empty, missing or on the path is terminal, every other one is followed
RECURSIVE CutsCycles(_, _, _)
CutsCycles(node, nodeId, path) ==
    LET options == OrElse(dlgMap[nodeId], "options", <<>>)
    IN  /\ node # NullNode
        /\ node.text = dlgMap[nodeId].text
        /\ Len(node.options) = Len(options)
        /\ \A i \in 1..Len(options) :
              LET target == OrElse(options[i], "next", Null)
              IN  /\ node.options[i].text = options[i].text
                  /\ IF \/ Falsy(target)
                        \/ ~ Has(dlgMap, target)
                        \/ target \in path \cup {nodeId}
                     THEN node.options[i].next = NullNode
                     ELSE CutsCycles(node.options[i].next, target,
                                     path \cup {nodeId})

\* C20: on every dialog map, with self-references and longer cycles,
\* resolveDialogNode returns: null for an empty or unknown entry id, else a
\* tree no deeper than the number of nodes, in which the option whose
\* reference would revisit a node of the current path has next = null and
\* every other reference to a node of the map is followed.
C20_ResolveCutsCycles ==
    resolved # EmptyObj
    => IF Falsy(entryId) \/ ~ Has(dlgMap, entryId)
       THEN resolved = NullNode
       ELSE /\ CutsCycles(resolved, entryId, {})
            /\ Depth(resolved) <= Cardinality(DOMAIN dlgMap)

C20_Witness ==
    /\ entryId = "a"
    /\ resolved # EmptyObj
    /\ DOMAIN dlgMap = {"a", "b", "c"}
    /\ dlgMap["a"] = [text |-> "a", options |-> <<NextOpt("b"), NextOpt("c")>>]
    /\ dlgMap["b"] = [text |-> "b", options |-> <<NextOpt("b"), NextOpt("c")>>]
    /\ dlgMap["c"] = [text |-> "c", options |-> <<NextOpt("a")>>]
    /\ resolved.options[1].next.text = "b"
    /\ resolved.options[1].next.options[1].next = NullNode
    /\ resolved.options[1].next.options[2].next.text = "c"
    /\ resolved.options[1].next.options[2].next.options[1].next = NullNode
    /\ resolved.options[2].next.text = "c"
    /\ resolved.options[2].next.options[1].next = NullNode

\* node is the tree of nodeId below the path: an option that refers to a
\* node of the map is terminal exactly when that node is nodeId or on the
\* path, and otherwise carries that node with all its options
RECURSIVE CutsOnlyAncestors(_, _, _)
CutsOnlyAncestors(node, nodeId, path) ==
    LET options == OrElse(dlgMap[nodeId], "options", <<>>)
    IN  \A i \in 1..Len(options) :
           LET target == OrElse(options[i], "next", Null)
           IN  (~ Falsy(target) /\ Has(dlgMap, target))
               => /\ (node.options[i].next = NullNode)
                        <=> (target \in path \cup {nodeId})
                  /\ node.options[i].next # NullNode
                        => /\ node.options[i].next.text = dlgMap[target].text
                           /\ Len(node.options[i].next.options)
                                 = Len(OrElse(dlgMap[target], "options", <<>>))
                           /\ CutsOnlyAncestors(node.options[i].next, target,
                                                path \cup {nodeId})

\* C21: cycle detection is per path: an option's next is null only when its
\* target is the node itself or an ancestor on the path from the entry, so a
\* node reached along two acyclic paths is inlined in full under both.
C21_CyclesCutPerPath ==
    (resolved # EmptyObj /\ resolved # NullNode)
    => CutsOnlyAncestors(resolved, entryId, {})

\* the diamond a -> b -> c, a -> c: c is inlined under both paths
C21_Witness ==
    /\ entryId = "a"
    /\ resolved # EmptyObj
    /\ DOMAIN dlgMap = {"a", "b", "c"}
    /\ dlgMap["a"] = [text |-> "a", options |-> <<NextOpt("b"), NextOpt("c")>>]
    /\ dlgMap["b"] = [text |-> "b", options |-> <<NextOpt("c")>>]
    /\ dlgMap["c"] = [text |-> "c", options |-> <<OptBye>>]
    /\ resolved.options[2].next = [text |-> "c", options |->
                                      <<[text |-> "bye", next |-> NullNode]>>]
    /\ resolved.options[1].next.options[1].next = resolved.options[2].next

\* C22: resolveDialogNode returns null when the entry id is empty, is not a
\* key of the map or the map is empty; otherwise it returns the node stored
\* under the entry id, with its options in the authored order.
C22_NullOrEntryNode ==
    resolved # EmptyObj
    => IF Falsy(entryId) \/ dlgMap = EmptyObj \/ entryId \notin DOMAIN dlgMap
       THEN resolved = NullNode
       ELSE LET raw == dlgMap[entryId]
                options == OrElse(raw, "options", <<>>)
            IN  /\ resolved # NullNode
                /\ \A f \in DOMAIN raw \ {"options"} : resolved[f] = raw[f]
                /\ resolved.text = entryId
                /\ Len(resolved.options) = Len(options)
                /\ \A i \in 1..Len(options) :
                      \A f \in DOMAIN options[i] \ {"next"} :
                         resolved.options[i][f] = options[i][f]

\* a call with an id that is not a key of a map of three nodes returned null
C22_Witness ==
    /\ resolved = NullNode
    /\ entryId = "zz"
    /\ DOMAIN dlgMap = {"a", "b", "c"}
    /\ dlgMap["a"] = [text |-> "a", options |-> <<NextOpt("a")>>]

-----------------------------------------------------------------------------
(* Properties of navigation.  In a step of SpecSession with call'.op =      *)
(* "navigate" the call navigate(call'.direction) ran on the unprimed        *)
(* stores and left the primed ones.                                         *)

Navigated == call'.op = "navigate"

\* the current room is registered and has an exit in the direction asked for
HasExit(registry, roomId, direction) ==
    /\ Has(registry, roomId)
    /\ Has(OrElse(registry[roomId], "exits", EmptyObj), direction)

\* that exit
AskedExit == roomMap[currentRoomId].exits[call'.direction]

\* the exit names a gating flag
Gated(exit) == ~ IsString(exit) /\ Has(exit, "requires")

\* the outcomes of a failed navigate, told apart by the reason
Invalid(result) ==
    ~ result.success /\ result.reason \in {ReasonUnmoored, ReasonNothing}
Unformed(result) == ~ result.success /\ result.reason = ReasonUnformed
Blocked(result) ==
    ~ result.success /\ ~ Invalid(result) /\ ~ Unformed(result)

\* C23: navigate is invalid when the current room is not registered or has
\* no exit in the direction; it is blocked when the exit exists and its
\* gating flag is not set, with the exit's locked message if it has one and
\* the generic message otherwise; an exit without a gating flag never blocks.
C23_InvalidAndBlocked ==
    [][ Navigated
        => /\ ~ HasExit(roomMap, currentRoomId, call'.direction)
                 => Invalid(navResult')
           /\ HasExit(roomMap, currentRoomId, call'.direction)
                 => /\ (Gated(AskedExit)
                          /\ ~ (Has(flags, AskedExit.requires)
                                  /\ flags[AskedExit.requires]))
                       => /\ Blocked(navResult')
                          /\ navResult'.reason =
                                IF Has(AskedExit, "lockedMessage")
                                THEN AskedExit.lockedMessage
                                ELSE ReasonPrevented
                    /\ ~ Gated(AskedExit) => ~ Blocked(navResult')
      ]_vars

\* up from the bay without the escort flag: the exit's own message
C23_Witness ==
    /\ call.op = "navigate"
    /\ call.direction = "up"
    /\ currentRoomId = "arrival_bay"
    /\ Has(roomMap, "arrival_bay")
    /\ ~ Has(flags, "escort")
    /\ navResult = [success |-> FALSE, reason |-> "The relay room is sealed."]

\* C24: whenever the exit asked for exists and its target is not registered,
\* navigate reports unformed, not blocked and not invalid, and the player
\* does not move.
C24_UnformedWheneverUnregistered ==
    [][ (Navigated /\ HasExit(roomMap, currentRoomId, call'.direction)
           /\ ~ Has(roomMap, exitTarget(AskedExit)))
        => /\ Unformed(navResult')
           /\ currentRoomId' = currentRoomId
      ]_vars

\* C24 amended: whenever the exit asked for exists, is not blocked (it has no
\* gating flag, or its flag is set) and its target is not registered,
\* navigate reports unformed, not blocked and not invalid, and the player
\* does not move; a gated exit whose flag is not set reports blocked whether
\* or not its target is registered.
C24_UnformedUnlessBlocked ==
    [][ (Navigated /\ HasExit(roomMap, currentRoomId, call'.direction)
           /\ ~ Has(roomMap, exitTarget(AskedExit)))
        => /\ currentRoomId' = currentRoomId
           /\ IF Gated(AskedExit)
                 /\ ~ (Has(flags, AskedExit.requires)
                         /\ flags[AskedExit.requires])
              THEN Blocked(navResult')
              ELSE /\ Unformed(navResult')
                   /\ ~ Blocked(navResult')
                   /\ ~ Invalid(navResult')
      ]_vars

\* forward from the bay while corridor_a is not registered
C24_Witness ==
    /\ call.op = "navigate"
    /\ call.direction = "forward"
    /\ currentRoomId = "arrival_bay"
    /\ roomMap["arrival_bay"].exits.forward = [roomId |-> "corridor_a"]
    /\ ~ Has(roomMap, "corridor_a")
    /\ navResult = [success |-> FALSE, reason |-> ReasonUnformed]

\* C25: navigate succeeds exactly when the current room is registered, the
\* exit exists, its gating flag (if any) is set and the target is registered;
\* then the position is the exit's target and visited_<target> is true.
C25_MovedExactlyWhen ==
    [][ Navigated
        => /\ navResult'.success
                <=> /\ HasExit(roomMap, currentRoomId, call'.direction)
                    /\ Gated(AskedExit)
                          => (Has(flags, AskedExit.requires)
                                /\ flags[AskedExit.requires])
                    /\ Has(roomMap, exitTarget(AskedExit))
           /\ navResult'.success
                => /\ currentRoomId' = exitTarget(AskedExit)
                   /\ Has(flags', VisitedKey(currentRoomId'))
                   /\ flags'[VisitedKey(currentRoomId')] = TRUE
      ]_vars

\* up from the bay into the relay room with the escort flag set
C25_Witness ==
    /\ call.op = "navigate"
    /\ call.direction = "up"
    /\ navResult = [success |-> TRUE]
    /\ currentRoomId = "relay"
    /\ Has(flags, "escort")
    /\ Has(flags, "visited_relay")
    /\ flags["visited_relay"] = TRUE

\* C26: at most one prefetch request is issued per room id in a session.
C26_OnePrefetchPerRoom ==
    \A i, j \in 1..Len(gmCalls) :
        gmCalls[i].roomId = gmCalls[j].roomId => i = j

\* the targets of the exits of a registered room
ExitTargets(registry, roomId) ==
    LET exits == OrElse(registry[roomId], "exits", EmptyObj)
    IN  {exitTarget(exits[direction]) : direction \in DOMAIN exits}

\* the calls a step added to gmCalls
NewCalls == {gmCalls'[i].roomId : i \in (Len(gmCalls) + 1)..Len(gmCalls')}

\* C27: after a successful move every unregistered exit target of the room
\* entered is pending, and a prefetch was issued for each one that was not
\* pending before; none is issued for a registered target, for a target that
\* was pending, or on a failed move.
C27_PrefetchOnArrival ==
    [][ Navigated
        => IF navResult'.success
           THEN LET unformed == {t \in ExitTargets(roomMap, currentRoomId') :
                                    ~ Has(roomMap, t)}
                IN  /\ unformed \subseteq gmQueue'
                    /\ NewCalls = unformed \ gmQueue
                    /\ gmQueue' = gmQueue \cup NewCalls
                    /\ \A i \in (Len(gmCalls) + 1)..Len(gmCalls') :
                          gmCalls'[i].fromRoomId = currentRoomId'
           ELSE gmCalls' = gmCalls /\ gmQueue' = gmQueue
      ]_vars

\* forward into the corridor: lab is asked for and pending, the bay is not
C27_Witness ==
    /\ call.op = "navigate"
    /\ navResult = [success |-> TRUE]
    /\ currentRoomId = "corridor_a"
    /\ gmQueue = {"lab"}
    /\ Len(gmCalls) > 0
    /\ gmCalls[1] = [roomId |-> "lab", fromRoomId |-> "corridor_a",
                     settled |-> FALSE]

\* C28: in every state of a session after content loading, every exit of
\* every registered room targets a room that is registered or pending.
C28_ExitsRegisteredOrPending ==
    boot # "start"
    => \A roomId \in DOMAIN roomMap :
          \A t \in ExitTargets(roomMap, roomId) :
             Has(roomMap, t) \/ t \in gmQueue

\* C29: a room id leaves the pending set only when the room is registered,
\* and a registered room is not pending.
C29_PendingUntilRegistered ==
    [][ /\ \A roomId \in gmQueue :
              roomId \notin gmQueue' => Has(roomMap', roomId)
        /\ \A roomId \in DOMAIN roomMap' : roomId \notin gmQueue'
      ]_vars

\* a gmPrefetchRoom call for the room has settled with the generated room
Generated(roomId) ==
    \E i \in 1..Len(gmCalls) :
        gmCalls[i].roomId = roomId /\ gmCalls[i].settled

\* C30: when a prefetch request has completed with a room, the room is
\* registered in the end.
C30_GeneratedRoomRegistered ==
    \A roomId \in {"lab", "vault", "corridor_a"} :
        Generated(roomId) ~> Has(roomMap, roomId)

-----------------------------------------------------------------------------
(* Frame conditions of navigate and injectDialogOptions *)

\* C38: a navigate call that fails (invalid, blocked or unformed) leaves the
\* current room id, the flags, the room registry and the pending set as they
\* were, and makes no gmPrefetchRoom call.
C38_FailedNavigateChangesNothing ==
    [][(Navigated /\ ~ navResult'.success) =>
          /\ Invalid(navResult') \/ Blocked(navResult') \/ Unformed(navResult')
          /\ currentRoomId' = currentRoomId
          /\ flags' = flags
          /\ roomMap' = roomMap
          /\ gmQueue' = gmQueue
          /\ gmCalls' = gmCalls]_vars

\* an unformed move was refused in the corridor, after the move into the
\* corridor had set a visited flag and made the lab pending
C38_Witness ==
    /\ call.op = "navigate"
    /\ Unformed(navResult)
    /\ currentRoomId = "corridor_a"
    /\ gmQueue = {"lab"}
    /\ Len(gmCalls) = 2
    /\ ~ Has(flags, VisitedKey("arrival_bay"))

\* the registry without the option list of one dialog node of one room
WithoutOptions(registry, roomId, entry) ==
    [registry EXCEPT ![roomId] =
        [registry[roomId] EXCEPT !._dialog =
            [registry[roomId]._dialog EXCEPT ![entry] =
                [k \in DOMAIN registry[roomId]._dialog[entry] \ {"options"} |->
                    registry[roomId]._dialog[entry][k]]]]]

\* C39: injectDialogOptions for a room that is not registered, an NPC that is
\* not in the room or an NPC whose entry node is missing leaves the registry
\* unchanged; otherwise the registry changes in the option list of the
\* NPC's entry node in that room and nowhere else.
C39_InjectFrame ==
    [][call'.op = "inject" =>
          IF injectTarget(roomMap, call'.roomId, call'.npcId)
          THEN LET entry == entryOf(roomMap, call'.roomId, call'.npcId)
               IN  /\ DOMAIN roomMap' = DOMAIN roomMap
                   /\ Has(roomMap'[call'.roomId]._dialog, entry)
                   /\ WithoutOptions(roomMap', call'.roomId, entry)
                        = WithoutOptions(roomMap, call'.roomId, entry)
                   /\ roomMap'[call'.roomId]._dialog[entry].options
                        # OrElse(roomMap[call'.roomId]._dialog[entry],
                                 "options", <<>>)
          ELSE roomMap' = roomMap]_vars

\* options were injected for the guard of the corridor, whose dialog map has
\* a second node
C39_Witness ==
    /\ call.op = "inject"
    /\ call.roomId = "corridor_a"
    /\ call.npcId = "guard"
    /\ Has(roomMap, "corridor_a")
    /\ DOMAIN roomMap["corridor_a"]._dialog = {"halt", "more"}
    /\ Len(roomMap["corridor_a"]._dialog.halt.options) > 2

-----------------------------------------------------------------------------
(* Properties of the client save API.  In a step of SpecClient with         *)
(* call'.op = "settled" the server handled one request in flight on the     *)
(* directory store and the response in responses' that is not in responses  *)
(* is what the caller got.                                                   *)

\* the request was a PATCH whose seq is not the seq the server compares with
Conflict(st, rsp) ==
    /\ rsp.method = "PATCH"
    /\ Has(rsp.body, "seq")
    /\ rsp.body.seq # ServerSeq(st, rsp)

\* C31: a patch with a stale seq settles the caller's promise with a value
\* (ok false, the client's and the server's seq) and throws nothing; the
\* directory and the stores of the engine are as before.  Every other
\* response outside 200-299 is thrown, every response inside is a value.
C31_ConflictIsTypedResult ==
    [][call'.op = "settled" =>
          \A rsp \in responses' \ responses :
              IF Conflict(store, rsp)
              THEN /\ ~ rsp.outcome.thrown
                   /\ rsp.outcome.value.ok = FALSE
                   /\ rsp.outcome.value.clientSeq = rsp.body.seq
                   /\ rsp.outcome.value.serverSeq = ServerSeq(store, rsp)
                   /\ store' = store
                   /\ UNCHANGED <<roomMap, currentRoomId, currentAct, flags,
                                  inventory>>
              ELSE rsp.outcome.thrown <=> res'.status \notin 200..299
      ]_vars

\* a caller's patch with seq 1 met the slot at seq 0, after the app moved
C31_Witness ==
    /\ call.op = "settled"
    /\ res.status = 409
    /\ currentRoomId = "corridor_a"
    /\ \E rsp \in responses :
          /\ rsp.id = call.id
          /\ rsp.from = "caller"
          /\ rsp.outcome = [thrown |-> FALSE,
                            value |-> [ok |-> FALSE, drifted |-> TRUE,
                                       error |-> "seq_mismatch",
                                       clientSeq |-> 1, serverSeq |-> 0]]

\* C32: what the room view shows for the room the player is in is what it
\* shows for the same room with the provenance fields of an authored room.
C32_ProvenanceNotShown ==
    Has(roomMap, currentRoomId) =>
        roomView(roomMap, currentRoomId, flags)
            = roomView(Spread(roomMap,
                              [id \in {currentRoomId} |->
                                  Spread(roomMap[currentRoomId],
                                         [gmGenerated |-> FALSE,
                                          gmSource |-> Null])]),
                       currentRoomId, flags)

\* C33: using an object that declares setFlag sets the flag in the flags
\* store, so that no exit of the room gated on that flag alone is locked.
C33_ObjectSetsFlag ==
    [][(call'.op = "examine" /\ Has(call'.item, "setFlag")) =>
          /\ Has(flags', call'.item.setFlag)
          /\ flags'[call'.item.setFlag] = TRUE
          /\ \A i \in 1..Len(getAvailableExits(roomMap', currentRoomId', flags')) :
                LET exit == roomMap'[currentRoomId'].exits[
                                getAvailableExits(roomMap', currentRoomId',
                                                  flags')[i].direction]
                IN  exitCondition(exit) = call'.item.setFlag
                        => ~ exitLocked(flags', exit)
      ]_vars

\* C34: a PUT is answered ok whatever file the slot has, and afterwards the
\* player, the overlays, the log and the seq of the stored save are the
\* body's; the other files are as before.
C34_ReplaceOverwrites ==
    [][req'.method = "PUT" =>
          /\ res' = [status |-> 200, ok |-> TRUE]
          /\ existsSync(store', File(req'))
          /\ store'[File(req')].player = req'.body.player
          /\ store'[File(req')].rooms = req'.body.rooms
          /\ store'[File(req')].log = req'.body.log
          /\ store'[File(req')].seq = req'.body.seq
          /\ \A p \in DOMAIN store' \ {File(req')} :
                existsSync(store, p) /\ store'[p] = store[p]
      ]_vars

\* the save of an act transition, written at seq 1, replaced the save of the
\* slot
C34_Witness ==
    /\ req.method = "PUT"
    /\ req.slotId = Slot1
    /\ req.body.seq = 1
    /\ res.status = 200
    /\ store[File(req)].seq = 1
    /\ store[File(req)].player.act = 2
    /\ store[File(req)].log = <<EntryB>>

\* C35: applying the overlays of a loaded save registers the gmRoom of an
\* overlay under the room's id as it is: the description override, the added
\* NPCs and objects and the injected dialog of that overlay are not applied.
C35_GmRoomShortCircuits ==
    [][call'.op = "load" =>
          \A roomId \in DOMAIN call'.rooms :
              Has(call'.rooms[roomId], "gmRoom") =>
                  /\ Has(roomMap', call'.rooms[roomId].gmRoom.id)
                  /\ roomMap'[call'.rooms[roomId].gmRoom.id]
                        = call'.rooms[roomId].gmRoom
      ]_vars

\* the save with an overlay for the lab that has a gmRoom, a description
\* override and an added NPC was applied
C35_Witness ==
    /\ call.op = "load"
    /\ Has(call.rooms, "lab")
    /\ DOMAIN call.rooms["lab"]
          = {"gmRoom", "descriptionOverride", "addedNpcs"}
    /\ roomMap["lab"] = StubRoom("lab", "corridor_a")
    /\ roomMap["lab"].npcs = <<>>

C37_PatchCreatesSlot ==
    [][(PatchOn(req') /\ ~ existsSync(store, File(req'))) =>
          IF clientSeqOf(req'.body) \in {Undefined, 0}
          THEN /\ res' = [status |-> 200, ok |-> TRUE, seq |-> 1]
               /\ existsSync(store', File(req'))
               /\ store'[File(req')]
                     = patched(makeEmptySave(req'.slotId), req'.body)
               /\ store'[File(req')].seq = 1
          ELSE /\ res'.status = 409
               /\ res'.serverSeq = 0
               /\ store' = store
      ]_vars

\* a patch with seq 1 was sent to a slot without a file and was rejected
C37_Witness ==
    /\ PatchOn(req)
    /\ clientSeqOf(req.body) = 1
    /\ res.status = 409
    /\ res.serverSeq = 0
    /\ ~ existsSync(store, File(req))

====
